---------------------------- MODULE Spec2Model ----------------------------
(***************************************************************************)
(* Model of the RAG chatbot's retrieval pipeline:                          *)
(*   - PDFProcessor.check_text_quality / should_use_ocr (pdf_processor.py) *)
(*   - VectorService (vector_service.py): store_vectors, search_vectors,   *)
(*     clear_all_vectors with the Pinecone index and the JSON snapshots.   *)
(*                                                                         *)
(* Fault model: the remote index, and the text encoder, may raise on any   *)
(* call; the local filesystem and the clock do not fail.                   *)
(***************************************************************************)
EXTENDS Integers, Sequences, FiniteSets, TLC

(***************************************************************************)
(* Part 1.  Text quality and the OCR decision (pdf_processor.py)           *)
(***************************************************************************)

\* A text is a sequence of characters; one representative per character class:
\*   "a"  alphanumeric                  (str.isalnum)
\*   " "  space / newline / tab         (whitespace, in the allow-list of line 537)
\*   "."  punctuation of the allow-list  .,!?-()[]{}":;'
\*   "#"  any other printable character (counted as special)
\*   "r"  whitespace outside the allow-list, e.g. \r or \f (stripped and split
\*        on like a space, but counted as special by line 537)
Chars == {"a", " ", ".", "#", "r"}

MaxUnitLen == 2
MaxPages == 2

\* Repetition counts of the unit; chosen around the thresholds 50 and 20.
Reps == {0, 17, 19, 20, 40, 49, 50}

RECURSIVE SeqsUpTo(_, _)
SeqsUpTo(S, n) ==
    IF n = 0 THEN {<<>>}
    ELSE LET shorter == SeqsUpTo(S, n - 1)
         IN  shorter \cup {Append(s, c) : s \in shorter, c \in S}

\* Two ten-character units at, and just above, the 30% special-character ratio.
BoundaryUnits ==
    { <<"a","a","a","a","a","a"," ","#","#","#">>,
      <<"a","a","a","a","a"," ","#","#","#","#">> }

Units == (SeqsUpTo(Chars, MaxUnitLen) \ {<<>>}) \cup BoundaryUnits

\* unit * k   (Python string repetition)
Repeat(unit, k) ==
    [i \in 1..(k * Len(unit)) |-> unit[((i - 1) % Len(unit)) + 1]]

IsSpace(c) == c \in {" ", "r"}
IsAlnum(c) == c = "a"
InAllowList(c) == c \in {" ", "."}

\* len(text.strip())
StripLen(text) ==
    LET solid == {i \in 1..Len(text) : ~IsSpace(text[i])}
    IN  IF solid = {} THEN 0
        ELSE (CHOOSE hi \in solid : \A j \in (hi + 1)..Len(text) : IsSpace(text[j]))
             - (CHOOSE lo \in solid : \A j \in 1..(lo - 1) : IsSpace(text[j])) + 1

\* len(text.split())
WordCount(text) ==
    Cardinality({i \in 1..Len(text) :
                    /\ ~IsSpace(text[i])
                    /\ (i = 1 \/ IsSpace(text[i - 1]))})

\* sum(1 for c in text if not c.isalnum() and c not in ' \n\t.,!?-()[]{}":;\'')
SpecialCount(text) ==
    Cardinality({i \in 1..Len(text) : ~IsAlnum(text[i]) /\ ~InAllowList(text[i])})

MinTextLen == 50
MinWordsPerPage == 20
\* special_char_ratio > 0.3, as the exact rational comparison
\* special_chars / len(text) > SpecialNum / SpecialDen
SpecialNum == 3
SpecialDen == 10

Quality(q, r, o) == [quality |-> q, reason |-> r, needs_ocr |-> o]

LengthRuleMut(text) == Len(text) = 0 \/ StripLen(text) <= MinTextLen
LengthRule(text) == Len(text) = 0 \/ StripLen(text) < MinTextLen

\* words_per_page = len(words) / num_pages if num_pages > 0 else 0;  < 20
WordsRule(text, num_pages) ==
    IF num_pages > 0 THEN WordCount(text) < MinWordsPerPage * num_pages
    ELSE TRUE

SpecialRule(text) ==
    IF Len(text) > 0 THEN SpecialCount(text) * SpecialDen > SpecialNum * Len(text)
    ELSE FALSE

check_text_quality(text, num_pages) ==
    IF LengthRule(text) THEN Quality("poor", "insufficient_text", TRUE)
    ELSE IF WordsRule(text, num_pages)
         THEN Quality("poor", "too_few_words_per_page", TRUE)
    ELSE IF SpecialRule(text)
         THEN Quality("poor", "too_many_special_chars", TRUE)
    ELSE Quality("good", "text_extracted_successfully", FALSE)

\* analysis: Dict[str, bool], possibly without the keys that are read
AnalysisKeys == {"has_images", "likely_has_tables"}
Analyses == UNION {[ks -> BOOLEAN] : ks \in SUBSET AnalysisKeys}

\* analysis.get(key, False)
DictGet(d, key, default) == IF key \in DOMAIN d THEN d[key] ELSE default

\* A reason is the tuple of the parts of the reason string; the f-string
\* f'good_text_quality: {reason}' is <<"good_text_quality", reason>>.
Decision(u, r) == [use_ocr |-> u, reason |-> r]

should_use_ocr_mut(pdf_text, num_pages, analysis, force_ocr) ==
    IF DictGet(analysis, "has_images", FALSE)
    THEN Decision(TRUE, <<"has_images_always_run_ocr">>)
    ELSE IF force_ocr THEN Decision(TRUE, <<"forced_by_user">>)
    ELSE IF DictGet(analysis, "likely_has_tables", FALSE)
    THEN Decision(TRUE, <<"likely_has_tables_need_ocr_for_structure">>)
    ELSE LET text_quality == check_text_quality(pdf_text, num_pages)
         IN  IF ~text_quality.needs_ocr
             THEN Decision(FALSE, <<"good_text_quality", text_quality.reason>>)
             ELSE Decision(TRUE, <<"poor_text_quality", text_quality.reason>>)

should_use_ocr(pdf_text, num_pages, analysis, force_ocr) ==
    IF force_ocr THEN Decision(TRUE, <<"forced_by_user">>)
    ELSE IF DictGet(analysis, "has_images", FALSE)
    THEN Decision(TRUE, <<"has_images_always_run_ocr">>)
    ELSE IF DictGet(analysis, "likely_has_tables", FALSE)
    THEN Decision(TRUE, <<"likely_has_tables_need_ocr_for_structure">>)
    ELSE LET text_quality == check_text_quality(pdf_text, num_pages)
         IN  IF ~text_quality.needs_ocr
             THEN Decision(FALSE, <<"good_text_quality", text_quality.reason>>)
             ELSE Decision(TRUE, <<"poor_text_quality", text_quality.reason>>)

VARIABLES
    ocr_in,     \* arguments of the pending / last call of a function that is
                \* specified on its own (the PDFProcessor functions and, below,
                \* other functions that keep no state)
    ocr_out     \* [fn, res] of that call, or [fn |-> "none"]

ocrVars == <<ocr_in, ocr_out>>




(***************************************************************************)
(* Part 2.  VectorService (vector_service.py)                              *)
(***************************************************************************)

\* Texts are symbolic: text [c, lo, hi, raw] stands for the words lo..hi of
\* the content numbered c; raw tells the caller's string (original
\* whitespace) from a chunk rebuilt by " ".join.  A text with hi < lo has
\* no word: it is the empty or a whitespace-only string.
Text(c, lo, hi, raw) == [c |-> c, lo |-> lo, hi |-> hi, raw |-> raw]
NumWords(t) == IF t.hi < t.lo THEN 0 ELSE t.hi - t.lo + 1
IsBlank(t) == NumWords(t) = 0
\* len(chunk), for one-character words
CharLen(t) == IF IsBlank(t) THEN 0 ELSE 2 * NumWords(t) - 1

DefaultChunkSize == 300
DefaultOverlap == 50
EmbedBatchSize == 32
UpsertBatchSize == 100
MaxWait == 30
MaxRetries == 3

Min(a, b) == IF a < b THEN a ELSE b
Max(a, b) == IF a > b THEN a ELSE b

\* len(range(0, n, step)) for step > 0
RangeLenMut(n, step) == n \div step
RangeLen(n, step) == (n + step - 1) \div step

\* split_text_into_chunks: [raised, chunks]; range() raises ValueError on a
\* zero step and is empty on a negative one.
split_text_into_chunks(text, chunk_size, overlap) ==
    LET n == NumWords(text)
        step == chunk_size - overlap
    IN  IF IsBlank(text) THEN [raised |-> FALSE, chunks |-> <<>>]
        ELSE IF n <= chunk_size THEN [raised |-> FALSE, chunks |-> <<text>>]
        ELSE IF step = 0 THEN [raised |-> TRUE, chunks |-> <<>>]
        ELSE IF step < 0 THEN [raised |-> FALSE, chunks |-> <<>>]
        ELSE [raised |-> FALSE,
              chunks |-> [k \in 1..RangeLen(n, step) |->
                            Text(text.c,
                                 text.lo + (k - 1) * step,
                                 text.lo + Min((k - 1) * step + chunk_size, n) - 1,
                                 FALSE)]]

\* The text encoder (tokenizer + encode_text + normalize) is a deterministic
\* function of the string, fixed by the loaded weights.  Vectors have
\* dimension 2 and are scaled by 5, so that every one has norm 5 and a dot
\* product is 25 times the cosine.
UnitVectors == << <<5, 0>>, <<4, 3>>, <<3, 4>>, <<0, 5>> >>

Encode(weights, t) ==
    UnitVectors[((t.c + weights * ((t.lo - 1) \div 250 + 1)
                      + (IF t.raw THEN 0 ELSE 1)) % 4) + 1]

Dot(u, v) == u[1] * v[1] + u[2] * v[2]

\* dict lookup / update of embedding_cache (a function on the cached strings)
CachePut(cache, t, v) ==
    [x \in (DOMAIN cache) \cup {t} |-> IF x = t THEN v ELSE cache[x]]

\* for text, embedding in zip(texts, vecs): cache[text] = embedding
\* (a string that occurs twice keeps its last vector)
CachePutAll(cache, texts, vecs) ==
    LET n == Min(Len(texts), Len(vecs))
        new == {texts[i] : i \in 1..n}
        lastAt(t) == LET at == {i \in 1..n : texts[i] = t}
                     IN  CHOOSE i \in at : \A j \in at : j <= i
    IN  [x \in (DOMAIN cache) \cup new |->
            IF x \in new THEN vecs[lastAt(x)] ELSE cache[x]]

\* list.insert(i, x), i zero-based
ListInsertMut(s, i, x) == Append(s, x)
ListInsert(s, i, x) ==
    LET at == Min(i, Len(s))
    IN  SubSeq(s, 1, at) \o <<x>> \o SubSeq(s, at + 1, Len(s))

\* [s[i] for i in range(len(s)) if keep(i)]
SelectIdx(s, keep(_)) ==
    LET kept == {i \in 1..Len(s) : keep(i)}
        pos == [i \in kept |-> Cardinality({j \in kept : j <= i})]
    IN  [p \in 1..Cardinality(kept) |-> s[CHOOSE i \in kept : pos[i] = p]]

\* create_embeddings(texts) with the cache `cache`, under encoder `weights`;
\* failBatch is the number of the batch on which the encoder raises (0: none).
\* Result: raised (the exception leaves the method), embeddings, the cache
\* afterwards and the list of strings handed to the encoder.
create_embeddings(texts, cache, weights, failBatch) ==
    LET hits == {i \in 1..Len(texts) : texts[i] \in DOMAIN cache}
        hit(i) == i \in hits
        miss(i) == i \notin hits
        hitTexts == SelectIdx(texts, hit)
        \* embeddings after the first loop: the cached vectors, in input order
        cached == [i \in 1..Len(hitTexts) |-> cache[hitTexts[i]]]
        texts_to_encode == SelectIdx(texts, miss)
        nbatches == RangeLen(Len(texts_to_encode), EmbedBatchSize)
        failed == failBatch \in 1..nbatches
        \* new_embeddings holds arrays up to the first fallback list
        firstBad == IF failed THEN (failBatch - 1) * EmbedBatchSize + 1
                    ELSE Len(texts_to_encode) + 1
        encoded == SelectIdx(texts_to_encode,
                       LAMBDA i : ~failed \/ (i - 1) \div EmbedBatchSize + 1 # failBatch)
        good == SubSeq(texts_to_encode, 1, firstBad - 1)
        goodVecs == [i \in 1..Len(good) |-> Encode(weights, good[i])]
        new_embeddings == [i \in 1..Len(texts_to_encode) |->
                              Encode(weights, texts_to_encode[i])]
        \* lines 168-172: st = <<embeddings, text_idx>>, one pass of the loop
        \* for the zero-based position i
        Pass(st, i) ==
            IF miss(i + 1)
            THEN <<ListInsert(st[1], i, new_embeddings[st[2] + 1]), st[2] + 1>>
            ELSE st
        RECURSIVE Passes(_, _, _)
        Passes(st, i, end) ==
            IF i >= end THEN st
            ELSE LET st1 == Pass(st, i)
                 IN  IF st1[2] >= 0 THEN Passes(st1, i + 1, end) ELSE st1
        \* the loop, run in stretches of EmbedBatchSize positions
        RECURSIVE Loop(_)
        Loop(k) == IF k = 0 THEN <<cached, 0>>
                   ELSE LET sofar == Loop(k - 1)
                        IN  \* (the tests on st1 and sofar make TLC evaluate a
                            \* pass before it starts the next one)
                            IF sofar[2] >= 0
                            THEN Passes(sofar, (k - 1) * EmbedBatchSize,
                                        Min(k * EmbedBatchSize, Len(texts)))
                            ELSE sofar
        merged == Loop(RangeLen(Len(texts), EmbedBatchSize))[1]
    IN  IF texts = <<>>
        THEN [raised |-> FALSE, embeddings |-> <<>>, cache |-> cache, encoded |-> <<>>]
        ELSE IF texts_to_encode = <<>>
        THEN [raised |-> FALSE, embeddings |-> cached, cache |-> cache, encoded |-> <<>>]
        ELSE IF failed
        \* a fallback entry is a list: embedding.tolist() raises AttributeError
        THEN [raised |-> TRUE, embeddings |-> <<>>,
              cache |-> CachePutAll(cache, good, goodVecs), encoded |-> encoded]
        ELSE [raised |-> FALSE, embeddings |-> merged,
              cache |-> CachePutAll(cache, good, goodVecs), encoded |-> encoded]

\* f"{filename}_{uuid.uuid4().hex[:8]}_{i}": the three parts determine the
\* string and the string determines them (the last two fields hold no "_").
VectorIdMut(filename, suffix, i) == <<filename, 0, i>>
VectorId(filename, suffix, i) == <<filename, suffix, i>>

\* The record list built by _store_vectors_pinecone / _store_vectors_json
\* (metadata is None in every caller); chunk_index is zero-based.
\* uuids[k] is the value of uuid.uuid4().hex[:8] drawn for record k.
BuildVectorsMut(filename, chunks, embeddings, uuids) ==
    [k \in 1..Min(Len(chunks), Len(embeddings)) |->
        [id |-> VectorId(filename, uuids[k], k - 1),
         values |-> embeddings[k],
         metadata |-> [filename |-> filename,
                       chunk_index |-> k,
                       text |-> chunks[k],
                       chunk_size |-> CharLen(chunks[k])]]]

BuildVectors(filename, chunks, embeddings, uuids) ==
    [k \in 1..Min(Len(chunks), Len(embeddings)) |->
        [id |-> VectorId(filename, uuids[k], k - 1),
         values |-> embeddings[k],
         metadata |-> [filename |-> filename,
                       chunk_index |-> k - 1,
                       text |-> chunks[k],
                       chunk_size |-> CharLen(chunks[k])]]]


\* One search hit, as built at lines 384-390 and 432-438
Hit(v, score) ==
    [id |-> v.id, score |-> score, text |-> v.metadata.text,
     filename |-> v.metadata.filename, chunk_index |-> v.metadata.chunk_index]

\* np.argsort(similarities): the positions 1..n in ascending order of
\* similarity, equal similarities in position order.
ArgSort(sims) ==
    LET n == Len(sims)
        rank == [i \in 1..n |->
                    Cardinality({j \in 1..n :
                        sims[j] < sims[i] \/ (sims[j] = sims[i] /\ j < i)})]
    IN  [p \in 1..n |-> CHOOSE i \in 1..n : rank[i] = p - 1]

\* seq[-k:]
SliceLast(seq, k) ==
    LET n == Len(seq)
        start == IF k > 0 THEN Max(n - k, 0) ELSE Min(0 - k, n)
    IN  SubSeq(seq, start + 1, n)

\* seq[::-1]
Reverse(seq) == [i \in 1..Len(seq) |-> seq[Len(seq) + 1 - i]]

\* top_indices = np.argsort(similarities)[-top_k:][::-1]
TopIndicesMut(sims, top_k) == SliceLast(ArgSort(sims), top_k)
TopIndices(sims, top_k) == Reverse(SliceLast(ArgSort(sims), top_k))

\* A snapshot file: [name, ctime, data]; name is
\* f"vectors_backup_{filename}_{int(time.time())}.json" as <<filename, seconds>>.
\* max(backup_files, key=os.path.getctime); NoFile when there is none.
NoFile == <<"", -1>>

_find_latest_backup_file_mut(fs) ==
    IF fs = {} THEN NoFile
    ELSE (CHOOSE f \in fs : \A g \in fs : g.ctime >= f.ctime).name

_find_latest_backup_file(fs) ==
    IF fs = {} THEN NoFile
    ELSE (CHOOSE f \in fs : \A g \in fs : g.ctime <= f.ctime).name

\* data.get('vectors', []) of the named file
_load_vectors_from_json(fs, name) ==
    (CHOOSE f \in fs : f.name = name).data.vectors

\* The query embedding of _search_pinecone / _search_json_vectors
\* (lines 361-374, 408-421): cache first, else encode and cache; encOK
\* tells whether the encoder answers.
QueryEmbeddingMut(query, cache, weights, encOK) ==
    IF encOK
    THEN [ok |-> TRUE, vec |-> Encode(weights, query),
          cache |-> CachePut(cache, query, Encode(weights, query)),
          encoded |-> <<query>>]
    ELSE [ok |-> FALSE, vec |-> <<0, 0>>, cache |-> cache, encoded |-> <<query>>]

QueryEmbedding(query, cache, weights, encOK) ==
    IF query \in DOMAIN cache
    THEN [ok |-> TRUE, vec |-> cache[query], cache |-> cache, encoded |-> <<>>]
    ELSE IF encOK
    THEN [ok |-> TRUE, vec |-> Encode(weights, query),
          cache |-> CachePut(cache, query, Encode(weights, query)),
          encoded |-> <<query>>]
    ELSE [ok |-> FALSE, vec |-> <<0, 0>>, cache |-> cache, encoded |-> <<query>>]

\* _search_json_vectors: [results, cache, read, ranked, failed]; read is the
\* set of snapshot files opened, ranked tells that the similarities were
\* computed, failed that the encoder raised on the query.
_search_json_vectors(query, top_k, fs, cache, weights, encOK) ==
    LET backup_file == _find_latest_backup_file(fs)
        vectors == _load_vectors_from_json(fs, backup_file)
        qe == QueryEmbedding(query, cache, weights, encOK)
        similarities == [i \in 1..Len(vectors) |-> Dot(vectors[i].values, qe.vec)]
        top_indices == TopIndices(similarities, top_k)
    IN  IF backup_file = NoFile
        THEN [results |-> <<>>, cache |-> cache, read |-> {}, ranked |-> FALSE,
              failed |-> FALSE]
        ELSE IF vectors = <<>>
        THEN [results |-> <<>>, cache |-> cache, read |-> {backup_file},
              ranked |-> FALSE, failed |-> FALSE]
        ELSE IF ~qe.ok
        THEN [results |-> <<>>, cache |-> cache, read |-> {backup_file},
              ranked |-> FALSE, failed |-> TRUE]
        ELSE [results |-> [i \in 1..Len(top_indices) |->
                              Hit(vectors[top_indices[i]], similarities[top_indices[i]])],
              cache |-> qe.cache, read |-> {backup_file}, ranked |-> TRUE,
              failed |-> FALSE]

\* index.query(vector, top_k, include_metadata=True) over the records the
\* index currently shows: the top_k records by descending cosine score
\* (equal scores in upsert order).
IndexQuery(shown, vec, top_k) ==
    LET n == Len(shown)
        sims == [i \in 1..n |-> Dot(shown[i].values, vec)]
        rank == [i \in 1..n |->
                    Cardinality({j \in 1..n :
                        sims[j] > sims[i] \/ (sims[j] = sims[i] /\ j < i)})]
        order == [p \in 1..n |-> CHOOSE i \in 1..n : rank[i] = p - 1]
    IN  [p \in 1..Min(Max(top_k, 0), n) |-> Hit(shown[order[p]], sims[order[p]])]

\* index.upsert(vectors=batch): a record replaces the record of the same id,
\* else it is added.
IndexUpsert(idx, batch) ==
    LET batchIds == {batch[k].id : k \in 1..Len(batch)}
        oldIds == {idx[i].id : i \in 1..Len(idx)}
        lastOf(id) == batch[CHOOSE k \in 1..Len(batch) :
                               /\ batch[k].id = id
                               /\ \A j \in (k + 1)..Len(batch) : batch[j].id # id]
        firstOnly(k) == /\ batch[k].id \notin oldIds
                        /\ \A j \in 1..(k - 1) : batch[j].id # batch[k].id
        added == SelectIdx(batch, firstOnly)
    IN  [i \in 1..Len(idx) |-> IF idx[i].id \in batchIds THEN lastOf(idx[i].id)
                                ELSE idx[i]]
        \o [k \in 1..Len(added) |-> lastOf(added[k].id)]

(***************************************************************************)
(* The service as a state machine.  The endpoints of main.py are coroutines *)
(* that call the service synchronously, so one call runs at a time; a call  *)
(* is split at its remote round trips (one upsert batch, one consistency    *)
(* poll, one search attempt), where the remote index and the clock may move.*)
(***************************************************************************)
MaxCalls == 3
BatchCalls == 1
MaxTime == 1
\* the service specification takes the polls of a consistency wait
\* PollStride at a time
PollStride == 15

Filenames == {"a.pdf", "b.pdf"}
\* blank, one chunk, two chunks
SmallDocs == {Text(1, 1, 0, TRUE), Text(1, 1, 120, TRUE), Text(2, 1, 301, TRUE)}
\* 101 chunks: two upsert batches, four encoder batches
BigDocs == {Text(3, 1, 25001, TRUE)}
\* blank, a question, and the very string of the one-chunk document
Queries == {Text(7, 1, 0, TRUE), Text(7, 1, 4, TRUE), Text(1, 1, 120, TRUE)}
\* values of uuid.uuid4().hex[:8]
Suffixes == {1, 2}
\* The draws of one call: <<first, step>> stands for the values
\* first, first + step, first + 2*step, ... taken within Suffixes, so the
\* records of a call draw equal or alternating values.
Streams == Suffixes \X {0, 1}
Uuids(stream, n) == [k \in 1..n |-> ((stream[1] - 1 + stream[2] * (k - 1)) % 2) + 1]
TopKs == {1, 3}
\* two encoders: one separates the chunks of a document, one maps them all to
\* the same vector (equal scores)
Weights == {1, 4}
\* what the remote does during one search attempt
RemoteModes == {"up", "stats_down", "query_down", "down"}

VARIABLES
    pinecone_available, \* self.pinecone_available, set once by _setup_pinecone
    index,              \* records held by the remote index, in upsert order
    visible,            \* how many of them the index shows (eventual consistency)
    files,              \* the vectors_backup_*.json files of the working directory
    fsclock,            \* change time given to the last file written
    now,                \* int(time.time())
    embedding_cache,    \* self.embedding_cache
    weights,            \* the loaded encoder
    call,               \* the call in progress and its locals, or [op |-> "idle"]
    last,               \* the last completed call: arguments, result, observations
    hist,               \* observations across calls
    budget              \* number of calls that may still begin

vsVars == <<pinecone_available, index, visible, files, fsclock, now,
            embedding_cache, weights, call, last, hist, budget>>
vars == <<ocr_in, ocr_out, vsVars>>

Idle == [op |-> "idle"]
\* value of `last` while a call is in progress
Running == [op |-> "running"]
NoStore == [filename |-> "", c |-> 0, method |-> "none"]
EmptyCache == [t \in {} |-> <<0, 0>>]

\* _setup_pinecone either connects (pinecone_available = True) or prints
\* "Will use JSON fallback for storage" and leaves it False; nothing assigns
\* pinecone_available afterwards.  The index and the directory start empty.
InitVS ==
    /\ pinecone_available \in BOOLEAN
    /\ index = <<>>
    /\ visible = 0
    /\ files = {}
    /\ fsclock = 0
    /\ now = 0
    /\ embedding_cache = EmptyCache
    /\ weights \in Weights
    /\ call = Idle
    /\ last = [op |-> "none"]
    /\ hist = [lastStored |-> NoStore, cleared |-> "no", wiped |-> FALSE,
               remoteFailed |-> FALSE, idReused |-> FALSE, redrawn |-> FALSE]

IdsOf(vectors) == {vectors[i].id : i \in 1..Len(vectors)}

\* the ids of the records held by either backend
HeldIds == IdsOf(index) \cup UNION {IdsOf(f.data.vectors) : f \in files}

\* hist after `vectors`, record k built with the random value uuids[k], were
\* stored: idReused tells that a record was stored under the id of a record
\* already held, redrawn that a record drew the value of a record already
\* held that has its filename and chunk index.
Recorded(h, vectors, uuids) ==
    [h EXCEPT !.idReused = @ \/ IdsOf(vectors) \cap HeldIds # {},
              !.redrawn = @ \/ \E k \in 1..Len(vectors) :
                                  <<vectors[k].metadata.filename, uuids[k],
                                    vectors[k].metadata.chunk_index>> \in HeldIds]

\* _store_vectors_json: the directory afterwards and the returned dict
_store_vectors_json(fs, clock, ctime, filename, chunks, embeddings, uuids) ==
    LET vectors == BuildVectors(filename, chunks, embeddings, uuids)
        backup_file == <<filename, clock>>
        backup_data == [filename |-> filename, timestamp |-> clock,
                        chunks |-> chunks, vectors |-> vectors]
    IN  [files |-> {f \in fs : f.name # backup_file}
                   \cup {[name |-> backup_file, ctime |-> ctime, data |-> backup_data]},
         vectors |-> vectors,
         result |-> [status |-> "success", filename |-> filename,
                     chunks_stored |-> Len(chunks), total_vectors |-> Len(vectors),
                     storage_method |-> "json_backup", backup_file |-> backup_file]]

PineconeResult(filename, chunks, vectors) ==
    [status |-> "success", filename |-> filename,
     chunks_stored |-> Len(chunks), total_vectors |-> Len(vectors),
     storage_method |-> "pinecone", backup_file |-> NoFile]

ErrorResult(filename, message) ==
    [status |-> "error", message |-> message, filename |-> filename]

Stored(filename, text, method) == [filename |-> filename, c |-> text.c, method |-> method]


\* if self.pinecone_available:   (lines 200 and 326)
UseRemoteMut == pinecone_available /\ ~hist.remoteFailed
UseRemote == pinecone_available

\* What is recorded of a completed store_vectors call.  trace lists the
\* backends in the order the call used them; raised tells that an exception
\* left store_vectors.
StoreLast(filename, text, chunks, embeddings, result, trace, obs) ==
    [op |-> "store", filename |-> filename, text |-> text, chunks |-> chunks,
     embeddings |-> embeddings, result |-> result, trace |-> trace,
     raised |-> obs.raised, upsertRaised |-> obs.upsertRaised,
     batchesDone |-> obs.batchesDone, waited |-> obs.waited, polls |-> obs.polls,
     pollRaised |-> obs.pollRaised, pollAnswered |-> obs.pollAnswered,
     synced |-> obs.synced,
     priorFail |-> obs.priorFail]

NoObs == [raised |-> FALSE, upsertRaised |-> FALSE, batchesDone |-> 0,
          waited |-> FALSE, polls |-> 0,
          pollRaised |-> FALSE, pollAnswered |-> FALSE, synced |-> FALSE,
          priorFail |-> FALSE]

\* store_vectors, lines 176-207, up to the first remote round trip
StoreBegin(filename, text, stream, failBatch) ==
    /\ call = Idle
    /\ budget > 0
    /\ budget' = budget - 1
    /\ LET split == split_text_into_chunks(text, DefaultChunkSize, DefaultOverlap)
           chunks == split.chunks
           emb == create_embeddings(chunks, embedding_cache, weights, failBatch)
           uuids == Uuids(stream, Len(chunks))
           obs == [NoObs EXCEPT !.priorFail = hist.remoteFailed]
           h0 == [hist EXCEPT !.cleared = "no", !.wiped = FALSE]
       IN  IF IsBlank(text)
           THEN /\ last' = StoreLast(filename, text, <<>>, <<>>,
                                     ErrorResult(filename, "Empty text provided"),
                                     <<>>, obs)
                /\ call' = Idle
                /\ hist' = h0
                /\ UNCHANGED <<files, fsclock, embedding_cache>>
           ELSE IF chunks = <<>>
           THEN /\ last' = StoreLast(filename, text, <<>>, <<>>,
                                     ErrorResult(filename, "No chunks created from text"),
                                     <<>>, obs)
                /\ call' = Idle
                /\ hist' = h0
                /\ UNCHANGED <<files, fsclock, embedding_cache>>
           ELSE IF emb.raised
           THEN /\ last' = StoreLast(filename, text, chunks, <<>>,
                                     [status |-> "exception"], <<>>,
                                     [obs EXCEPT !.raised = TRUE])
                /\ call' = Idle
                /\ hist' = h0
                /\ embedding_cache' = emb.cache
                /\ UNCHANGED <<files, fsclock>>
           ELSE IF UseRemote
           THEN /\ call' = [op |-> "store", pc |-> "upsert", filename |-> filename,
                            text |-> text, chunks |-> chunks,
                            embeddings |-> emb.embeddings,
                            vectors |-> BuildVectors(filename, chunks,
                                                     emb.embeddings, uuids),
                            uuids |-> uuids, sent |-> 0, attempt |-> 0,
                            obs |-> obs]
                /\ hist' = h0
                /\ embedding_cache' = emb.cache
                /\ last' = Running
                /\ UNCHANGED <<files, fsclock>>
           ELSE LET js == _store_vectors_json(files, now, fsclock + 1, filename,
                                              chunks, emb.embeddings, uuids)
                IN  /\ files' = js.files
                    /\ fsclock' = fsclock + 1
                    /\ embedding_cache' = emb.cache
                    /\ last' = StoreLast(filename, text, chunks, emb.embeddings,
                                         js.result, <<"local">>, obs)
                    /\ hist' = [Recorded(h0, js.vectors, uuids) EXCEPT
                                   !.lastStored = Stored(filename, text, "json_backup")]
                    /\ call' = Idle
    /\ UNCHANGED <<pinecone_available, index, visible, now, weights, ocr_in, ocr_out>>

\* _store_vectors_pinecone, lines 232-235: one index.upsert of a batch.  If it
\* raises, store_vectors (lines 203-207) falls back to _store_vectors_json.
UpsertBatch(ok, stream) ==
    /\ call.op = "store"
    /\ call.pc = "upsert"
    /\ LET batch == SubSeq(call.vectors, call.sent + 1,
                           Min(call.sent + UpsertBatchSize, Len(call.vectors)))
           sent1 == call.sent + Len(batch)
           uuids == Uuids(stream, Len(call.chunks))
           obs1 == [call.obs EXCEPT !.batchesDone = @ + 1]
           js == _store_vectors_json(files, now, fsclock + 1, call.filename,
                                     call.chunks, call.embeddings, uuids)
       IN  IF ok
           THEN /\ index' = IndexUpsert(index, batch)
                /\ hist' = Recorded(hist, batch,
                                     SubSeq(call.uuids, call.sent + 1, sent1))
                /\ call' = [call EXCEPT !.sent = sent1, !.obs = obs1,
                               !.pc = IF sent1 >= Len(call.vectors)
                                      THEN "wait" ELSE "upsert"]
                /\ UNCHANGED <<files, fsclock, last>>
           ELSE /\ files' = js.files
                /\ fsclock' = fsclock + 1
                /\ last' = StoreLast(call.filename, call.text, call.chunks,
                                     call.embeddings, js.result,
                                     <<"remote", "local">>,
                                     [call.obs EXCEPT !.upsertRaised = TRUE])
                /\ hist' = [Recorded(hist, js.vectors, uuids) EXCEPT
                               !.lastStored = Stored(call.filename, call.text,
                                                     "json_backup"),
                               !.remoteFailed = TRUE]
                /\ call' = Idle
                /\ UNCHANGED index
    /\ UNCHANGED <<pinecone_available, visible, now, embedding_cache, weights,
                   budget, ocr_in, ocr_out>>

\* for attempt in range(max_wait)
WaitLoopRunsMut(attempt) == attempt <= MaxWait
WaitLoopRuns(attempt) == attempt < MaxWait

\* if current_count >= expected_count (line 261)
CountReachedMut(current_count, expected_count) == current_count + 1 >= expected_count
CountReached(current_count, expected_count) == current_count >= expected_count

\* _wait_for_consistency, lines 254-272: up to n passes of the loop, each
\* with one describe_index_stats poll, during which the remote does not
\* change.  answers = FALSE: the stats call raises (caught, line 267).  When
\* the loop ends, _store_vectors_pinecone returns its dict whatever the wait
\* returned.
Poll(answers, n) ==
    /\ call.op = "store"
    /\ call.pc = "wait"
    /\ WaitLoopRuns(call.attempt)
    /\ LET expected_count == Len(call.vectors)
           synced == answers /\ CountReached(visible, expected_count)
           passes == IF synced THEN 1
                     ELSE Cardinality({k \in 0..(n - 1) :
                             \A j \in 0..k : WaitLoopRuns(call.attempt + j)})
           attempt1 == call.attempt + passes
           obs1 == [call.obs EXCEPT !.waited = TRUE,
                                    !.polls = @ + passes,
                                    !.pollRaised = @ \/ ~answers,
                                    !.pollAnswered = @ \/ answers,
                                    !.synced = synced]
       IN  IF synced \/ ~WaitLoopRuns(attempt1)
           THEN /\ last' = StoreLast(call.filename, call.text, call.chunks,
                                     call.embeddings,
                                     PineconeResult(call.filename, call.chunks,
                                                    call.vectors),
                                     <<"remote">>, obs1)
                /\ hist' = [hist EXCEPT
                               !.lastStored = Stored(call.filename, call.text, "pinecone")]
                /\ call' = Idle
           ELSE /\ call' = [call EXCEPT !.attempt = attempt1, !.obs = obs1]
                /\ UNCHANGED <<last, hist>>
    /\ UNCHANGED <<pinecone_available, index, visible, files, fsclock, now,
                   embedding_cache, weights, budget, ocr_in, ocr_out>>


\* What is recorded of a completed search_vectors call.  read: the snapshot
\* files opened; ranked: the local search computed similarities; attempts:
\* the number of _search_pinecone calls; embedFailed: the encoder raised on
\* the query.
SearchLast(query, top_k, results, trace, obs) ==
    [op |-> "search", query |-> query, top_k |-> top_k, results |-> results,
     trace |-> trace, read |-> obs.read, ranked |-> obs.ranked,
     attempts |-> obs.attempts, remoteRaised |-> obs.remoteRaised,
     attemptRaised |-> obs.attemptRaised, final |-> obs.final,
     yielded |-> obs.yielded,
     embedFailed |-> obs.embedFailed,
     priorFail |-> obs.priorFail, cleared |-> obs.cleared]

\* attemptRaised: a call of _search_pinecone raised (remoteRaised holds also
\* when describe_index_stats raised, which _search_pinecone catches itself);
\* final: how the last call of _search_pinecone ended, "none" without one;
\* yielded: the number of calls of _search_pinecone that returned results
NoSearchObs == [read |-> {}, ranked |-> FALSE, attempts |-> 0,
                remoteRaised |-> FALSE, attemptRaised |-> FALSE,
                final |-> "none", yielded |-> 0, embedFailed |-> FALSE,
                priorFail |-> FALSE, cleared |-> "no"]

\* search_vectors, lines 319-326 and 343
SearchBegin(query, top_k, encOK) ==
    /\ call = Idle
    /\ budget > 0
    /\ budget' = budget - 1
    /\ LET obs == [NoSearchObs EXCEPT !.priorFail = hist.remoteFailed,
                                      !.cleared = hist.cleared]
           js == _search_json_vectors(query, top_k, files, embedding_cache,
                                      weights, encOK)
       IN  IF IsBlank(query)
           THEN /\ last' = SearchLast(query, top_k, <<>>, <<>>, obs)
                /\ call' = Idle
                /\ UNCHANGED embedding_cache
           ELSE IF UseRemote
           THEN /\ call' = [op |-> "search", pc |-> "attempt", query |-> query,
                            top_k |-> top_k, attempt |-> 0, obs |-> obs]
                /\ last' = Running
                /\ UNCHANGED embedding_cache
           ELSE /\ last' = SearchLast(query, top_k, js.results, <<"local">>,
                                      [obs EXCEPT !.read = js.read,
                                                  !.ranked = js.ranked,
                                                  !.embedFailed = js.failed])
                /\ embedding_cache' = js.cache
                /\ call' = Idle
    /\ UNCHANGED <<pinecone_available, index, visible, files, fsclock, now,
                   weights, hist, ocr_in, ocr_out>>

\* attempt == max_retries - 1 (lines 331, 339), attempt counted from zero
IsLastAttemptMut(attempt) == attempt = MaxRetries
IsLastAttempt(attempt) == attempt = MaxRetries - 1

\* lines 329-332: _search_pinecone returned, and `results or attempt ==
\* max_retries - 1` holds
ReturnsRemoteMut(outcome, results, lastAttempt) ==
    results # <<>> \/ lastAttempt
ReturnsRemote(outcome, results, lastAttempt) ==
    outcome # "raise" /\ (results # <<>> \/ lastAttempt)

\* One pass of the loop of search_vectors (lines 327-341) with its call of
\* _search_pinecone (lines 345-394).
SearchAttempt(remote, encOK) ==
    /\ call.op = "search"
    /\ call.pc = "attempt"
    /\ LET statsRaises == remote \in {"stats_down", "down"}
           queryRaises == remote \in {"query_down", "down"}
           qe == QueryEmbedding(call.query, embedding_cache, weights, encOK)
           \* _search_pinecone: "empty" (line 354), "noembed" (line 374),
           \* "raise" (index.query raises) or "matches"
           outcome == IF ~statsRaises /\ visible = 0 THEN "empty"
                      ELSE IF ~qe.ok THEN "noembed"
                      ELSE IF queryRaises THEN "raise"
                      ELSE "matches"
           results == IF outcome = "matches"
                      THEN IndexQuery(SubSeq(index, 1, visible), qe.vec, call.top_k)
                      ELSE <<>>
           cache1 == IF outcome = "empty" THEN embedding_cache ELSE qe.cache
           lastAttempt == IsLastAttempt(call.attempt)
           obs1 == [call.obs EXCEPT !.attempts = @ + 1,
                                    !.remoteRaised = @ \/ statsRaises
                                                       \/ outcome = "raise",
                                    !.attemptRaised = @ \/ outcome = "raise",
                                    !.yielded = IF results # <<>> THEN @ + 1 ELSE @,
                                    !.embedFailed = @ \/ outcome = "noembed"]
           js == _search_json_vectors(call.query, call.top_k, files, cache1,
                                      weights, encOK)
       IN  /\ hist' = [hist EXCEPT !.remoteFailed = @ \/ obs1.remoteRaised]
           /\ IF ReturnsRemote(outcome, results, lastAttempt)
              THEN /\ last' = SearchLast(call.query, call.top_k, results,
                                         <<"remote">>,
                                         [obs1 EXCEPT !.final = outcome])
                   /\ embedding_cache' = cache1
                   /\ call' = Idle
              ELSE IF outcome = "raise" /\ lastAttempt
              THEN /\ last' = SearchLast(call.query, call.top_k, js.results,
                                         <<"remote", "local">>,
                                         [obs1 EXCEPT !.final = outcome,
                                                      !.read = js.read,
                                                      !.ranked = js.ranked,
                                                      !.embedFailed = @ \/ js.failed])
                   /\ embedding_cache' = js.cache
                   /\ call' = Idle
              ELSE /\ call' = [call EXCEPT !.attempt = @ + 1, !.obs = obs1]
                   /\ embedding_cache' = cache1
                   /\ UNCHANGED last
    /\ UNCHANGED <<pinecone_available, index, visible, files, fsclock, now,
                   weights, budget, ocr_in, ocr_out>>

\* lines 491-500: the directory after os.remove of every vectors_backup_*.json
RemoveBackupsMut(fs) == {f \in fs : f.name # _find_latest_backup_file(fs)}
RemoveBackups(fs) == {}

\* clear_all_vectors, lines 480-505; deleteOK: index.delete(delete_all=True)
\* succeeds.
ClearAllVectors(deleteOK) ==
    /\ call = Idle
    /\ budget > 0
    /\ budget' = budget - 1
    /\ IF pinecone_available /\ deleteOK
       THEN index' = <<>> /\ visible' = 0
       ELSE UNCHANGED <<index, visible>>
    /\ files' = RemoveBackups(files)
    /\ embedding_cache' = EmptyCache
    /\ last' = [op |-> "clear", deleted |-> pinecone_available /\ deleteOK]
    /\ hist' = [hist EXCEPT
                   !.cleared = IF pinecone_available /\ ~deleteOK
                               THEN "local" ELSE "all",
                   !.wiped = HeldIds # {},
                   !.remoteFailed = @ \/ (pinecone_available /\ ~deleteOK),
                   !.lastStored = NoStore]
    /\ UNCHANGED <<pinecone_available, fsclock, now, weights, call, ocr_in, ocr_out>>

\* The remote index catches up with the writes it accepted.
\* (Only the polls and the search attempts read what the index shows, so
\* the step is taken while one of them is pending.)
PineconeSync ==
    /\ call # Idle
    /\ call.pc \in {"wait", "attempt"}
    /\ visible < Len(index)
    /\ visible' = Len(index)
    /\ UNCHANGED <<pinecone_available, index, files, fsclock, now, embedding_cache,
                   weights, call, last, hist, budget, ocr_in, ocr_out>>

\* A second passes.  (The clock is read once per call, when a snapshot is
\* named, so the seconds that pass during a call are counted before it.)
Tick ==
    /\ call = Idle
    /\ now < MaxTime
    /\ now' = now + 1
    /\ UNCHANGED <<pinecone_available, index, visible, files, fsclock,
                   embedding_cache, weights, call, last, hist, budget, ocr_in, ocr_out>>

(***************************************************************************)
(* Specification of the OCR decision functions: the arguments are drawn by *)
(* the initial state and each action applies one function to them.         *)
(***************************************************************************)
OcrInputs ==
    [unit : Units, reps : Reps, num_pages : 0..MaxPages,
     analysis : Analyses, force_ocr : BOOLEAN]

InText == Repeat(ocr_in.unit, ocr_in.reps)

InitOCR ==
    /\ ocr_in \in OcrInputs
    /\ ocr_out = [fn |-> "none"]
    /\ InitVS
    /\ pinecone_available = FALSE
    /\ weights = 1
    /\ budget = 0

CallCheckTextQuality ==
    /\ ocr_out.fn = "none"
    /\ ocr_out' = [fn |-> "check_text_quality",
                   res |-> check_text_quality(InText, ocr_in.num_pages)]
    /\ UNCHANGED <<ocr_in, vsVars>>

CallShouldUseOcr ==
    /\ ocr_out.fn = "none"
    /\ ocr_out' = [fn |-> "should_use_ocr",
                   res |-> should_use_ocr(InText, ocr_in.num_pages,
                                          ocr_in.analysis, ocr_in.force_ocr)]
    /\ UNCHANGED <<ocr_in, vsVars>>

NextOCR == CallCheckTextQuality \/ CallShouldUseOcr

SpecOCR == InitOCR /\ [][NextOCR]_vars

(***************************************************************************)
(* Specification of the vector service                                     *)
(***************************************************************************)
NoOcr == [fn |-> "none"]
IdleOcrIn == [unit |-> <<"a">>, reps |-> 0, num_pages |-> 0,
              analysis |-> [k \in {} |-> FALSE], force_ocr |-> FALSE]

InitService ==
    /\ InitVS
    /\ ocr_in = IdleOcrIn
    /\ ocr_out = NoOcr

Init ==
    /\ InitService
    /\ budget = MaxCalls

\* Filenames and random values are interchangeable: while neither backend
\* holds a record, the next upload is taken to be "a.pdf" and to draw 1 first.
UploadNames == IF HeldIds = {} THEN {"a.pdf"} ELSE Filenames
UploadStreams == IF HeldIds = {} THEN {st \in Streams : st[1] = 1} ELSE Streams

Next ==
    \/ \E f \in UploadNames, t \in SmallDocs, st \in UploadStreams, b \in 0..1 :
          StoreBegin(f, t, st, b)
    \/ \E ok \in BOOLEAN, st \in Streams : UpsertBatch(ok, st)
    \/ \E answers \in BOOLEAN : Poll(answers, PollStride)
    \/ \E q \in Queries, k \in TopKs, e \in BOOLEAN : SearchBegin(q, k, e)
    \/ \E r \in RemoteModes, e \in BOOLEAN : SearchAttempt(r, e)
    \/ \E ok \in BOOLEAN : ClearAllVectors(ok)
    \/ PineconeSync
    \/ Tick

Spec == Init /\ [][Next]_vars

(***************************************************************************)
(* Specification of the upload of a long document: 101 chunks, sent in two *)
(* upsert batches, by a service that is connected to the remote index.     *)
(***************************************************************************)
InitBatch ==
    /\ InitService
    /\ pinecone_available
    /\ weights = 1
    /\ budget = BatchCalls

NextBatch ==
    \/ \E t \in BigDocs, st \in UploadStreams, b \in 0..4 :
          StoreBegin("a.pdf", t, st, b)
    \/ \E ok \in BOOLEAN, st \in Streams : UpsertBatch(ok, st)
    \/ \E answers \in BOOLEAN : Poll(answers, 1)
    \/ PineconeSync

SpecBatch == InitBatch /\ [][NextBatch]_vars

(***************************************************************************)
(* Part 3.  PDFProcessor.extract_text_and_tables (pdf_processor.py)        *)
(* A document is described by what the libraries make of it: pdf is the    *)
(* outcome of PyPDF2, the other arguments are what PyMuPDF, the OCR engine *)
(* and the three table extractors return for it.  A text is a sequence of  *)
(* characters (classes of Chars) and of literal blocks written by the code.*)
(***************************************************************************)
NativeFailures == {"corrupt", "encrypted", "zero_pages", "error"}

\* The HTTPException that leaves extract_text_from_pdf (lines 92-121): the
\* two raised inside the try are caught again by `except Exception` and
\* wrapped in a 500.
NativeError(kind) ==
    IF kind = "corrupt"
    THEN [status_code |-> 400, detail |-> <<"PDF file is corrupt or invalid">>]
    ELSE IF kind = "zero_pages"
    THEN [status_code |-> 500,
          detail |-> <<"Error processing PDF", "400: PDF contains no pages">>]
    ELSE IF kind = "encrypted"
    THEN [status_code |-> 500,
          detail |-> <<"Error processing PDF",
                       "400: Password protected PDF not supported">>]
    ELSE [status_code |-> 500, detail |-> <<"Error processing PDF", "str(e)">>]

NoError == [status_code |-> 200, detail |-> <<>>]

extract_text_from_pdf(pdf) ==
    IF pdf.kind \in NativeFailures
    THEN [raised |-> TRUE, error |-> NativeError(pdf.kind), text |-> <<>>,
          num_pages |-> 0]
    ELSE [raised |-> FALSE, error |-> NoError, text |-> pdf.text,
          num_pages |-> pdf.pages]

\* s.strip()
StripSeq(s) ==
    LET solid == {i \in 1..Len(s) : ~IsSpace(s[i])}
    IN  IF solid = {} THEN <<>>
        ELSE SubSeq(s, CHOOSE lo \in solid : \A j \in 1..(lo - 1) : IsSpace(s[j]),
                       CHOOSE hi \in solid : \A j \in (hi + 1)..Len(s) : IsSpace(s[j]))

\* len(ocr_text) > len(pdf_text) * 1.2, as the exact comparison
\* OcrDen * len(ocr_text) > OcrNum * len(pdf_text)
OcrNum == 6
OcrDen == 5
\* len(pdf_text) < 1000 (line 710)
TableTextLimit == 1000

OcrDominatesMut(ocr_text, pdf_text) ==
    ocr_text # <<>> /\ OcrDen * Len(ocr_text) >= OcrNum * Len(pdf_text)
OcrDominates(ocr_text, pdf_text) ==
    ocr_text # <<>> /\ OcrDen * Len(ocr_text) > OcrNum * Len(pdf_text)

\* "\n\n--- OCR SUPPLEMENT ---\n\n"
OcrSeparator == <<" ", " ", "--- OCR SUPPLEMENT ---", " ", " ">>

\* A table: [name, shape, first]; first is the cell iloc[0, 0].
\* lines 725-726
IsDuplicate(new_table, existing_table) ==
    new_table.shape = existing_table.shape /\ new_table.first = existing_table.first

\* len(tables) < 2 (line 718): pdfplumber is asked as well
FewTablesMut(tables) == Len(tables) <= 2
FewTables(tables) == Len(tables) < 2

TableTitles == <<"=== TABLE 1 ===", "=== TABLE 2 ===", "=== TABLE 3 ===",
                 "=== TABLE 4 ===", "=== TABLE 5 ===">>

\* lines 770-784: the text appended for the tables
RECURSIVE TableDumpFrom(_, _)
TableDumpFrom(tables, i) ==
    IF i > Len(tables) THEN <<>>
    ELSE <<" ", TableTitles[i], " ", "Dimensions", " ", "------", " ",
           tables[i].name, " ", "======", " ">> \o TableDumpFrom(tables, i + 1)

TableDump(tables) ==
    IF tables = <<>> THEN <<>>
    ELSE <<" ", " ", "--- EXTRACTED TABLES ---", " ", " ">> \o TableDumpFrom(tables, 1)

\* lines 752-768: "none" stands for the HTTPException of line 765
PrimaryText(pdf_text, ocr_text) ==
    IF OcrDominates(ocr_text, pdf_text) THEN [how |-> "ocr", text |-> ocr_text]
    ELSE IF pdf_text # <<>> /\ ocr_text # <<>>
    THEN [how |-> "combined", text |-> pdf_text \o OcrSeparator \o ocr_text]
    ELSE IF pdf_text # <<>> THEN [how |-> "pdf", text |-> pdf_text]
    ELSE IF ocr_text # <<>> THEN [how |-> "ocr_only", text |-> ocr_text]
    ELSE [how |-> "none", text |-> <<>>]

\* extract_text_and_tables, lines 694-789.  ran: the steps that were run for
\* the document; pdf_text, ocr_text: the two texts the choice was made from;
\* native_error: the exception of extract_text_from_pdf caught at lines 697-700.
extract_text_and_tables(pdf, analysis, force_ocr, ocr_engine, ocr_read, camelot_tables, plumber_tables, tabula_tables) ==
    LET native == extract_text_from_pdf(pdf)
        pdf_text == IF native.raised THEN <<>> ELSE native.text
        num_pages == IF native.raised THEN 0 ELSE native.num_pages
        ocr_decision == should_use_ocr(pdf_text, num_pages, analysis, force_ocr)
        tryTables == \/ analysis["likely_has_tables"]
                     \/ force_ocr
                     \/ Len(pdf_text) < TableTextLimit
        tables1 == IF tryTables THEN camelot_tables ELSE <<>>
        tryPlumber == tryTables /\ FewTables(tables1)
        IsNew(t) == \A i \in 1..Len(tables1) : ~IsDuplicate(t, tables1[i])
        tables2 == IF tryPlumber THEN tables1 \o SelectSeq(plumber_tables, IsNew)
                   ELSE tables1
        tryTabula == tryTables /\ tables2 = <<>>
        tables == IF tryTabula THEN tabula_tables ELSE tables2
        runOcr == ocr_decision.use_ocr /\ ocr_engine \in {"tesseract", "paddle"}
        ocr_text == IF runOcr THEN ocr_read ELSE <<>>
        primary == PrimaryText(pdf_text, ocr_text)
        ran == {"analysis"}
               \cup (IF tryTables THEN {"camelot"} ELSE {})
               \cup (IF tryPlumber THEN {"pdfplumber"} ELSE {})
               \cup (IF tryTabula THEN {"tabula"} ELSE {})
               \cup (IF runOcr THEN {"ocr"} ELSE {})
    IN  IF primary.how = "none"
        THEN [raised |-> TRUE,
              error |-> [status_code |-> 400,
                         detail |-> <<"PDF contains no extractable text">>],
              final_text |-> <<>>, tables |-> <<>>, how |-> "none", ran |-> ran,
              pdf_text |-> pdf_text, ocr_text |-> ocr_text,
              native_error |-> native.error]
        ELSE [raised |-> FALSE, error |-> NoError,
              final_text |-> StripSeq(primary.text \o TableDump(tables)),
              tables |-> tables, how |-> primary.how, ran |-> ran,
              pdf_text |-> pdf_text, ocr_text |-> ocr_text,
              native_error |-> native.error]

\* What PyPDF2 makes of the documents: a failure, or the page texts joined
\* (each followed by "\n") and the number of pages.  The texts: none (a
\* scanned document), a whitespace-only page, five characters, a hundred
\* characters of twenty-five words, and a thousand characters.
PdfTexts == {<<>>, <<" ", " ">>, Repeat(<<"a">>, 4) \o <<" ">>,
             Repeat(<<"a", "a", "a", " ">>, 25),
             Repeat(<<"a", "a", "a", " ">>, 250)}
Pdfs == [kind : NativeFailures, text : {<<>>}, pages : {0}]
        \cup [kind : {"ok"}, text : PdfTexts, pages : 1..MaxPages]

\* What the OCR engine reads (stripped, lines 621 and 661): lengths at and
\* around 1.2 times the native lengths 5 and 100.
OcrReads == {Repeat(<<"a">>, n) : n \in {0, 5, 6, 7, 120, 121}}

\* pdf_has_images_or_tables always answers both keys
FullAnalyses == [AnalysisKeys -> BOOLEAN]

OcrEngines == {"tesseract", "paddle", "none"}

TableA == [name |-> "A", shape |-> <<2, 2>>, first |-> "x"]
TableA2 == [name |-> "A again", shape |-> <<2, 2>>, first |-> "x"]
TableB == [name |-> "B", shape |-> <<3, 2>>, first |-> "x"]
TableC == [name |-> "C", shape |-> <<2, 2>>, first |-> "y"]
CamelotFinds == {<<>>, <<TableA>>, <<TableA, TableB>>}
PlumberFinds == {<<>>, <<TableA2, TableC>>}
TabulaFinds == {<<>>, <<TableC>>}

ExtractInputs ==
    [pdf : Pdfs, analysis : FullAnalyses, force_ocr : BOOLEAN,
     ocr_engine : OcrEngines, ocr_read : OcrReads, camelot : CamelotFinds,
     plumber : PlumberFinds, tabula : TabulaFinds]

InitExtract ==
    /\ ocr_in \in ExtractInputs
    /\ ocr_out = [fn |-> "none"]
    /\ InitVS
    /\ pinecone_available = FALSE
    /\ weights = 1
    /\ budget = 0

CallExtractTextAndTables ==
    /\ ocr_out.fn = "none"
    /\ ocr_out' = [fn |-> "extract_text_and_tables",
                   res |-> extract_text_and_tables(
                              ocr_in.pdf, ocr_in.analysis, ocr_in.force_ocr,
                              ocr_in.ocr_engine, ocr_in.ocr_read, ocr_in.camelot,
                              ocr_in.plumber, ocr_in.tabula)]
    /\ UNCHANGED <<ocr_in, vsVars>>

NextExtract == CallExtractTextAndTables

SpecExtract == InitExtract /\ [][NextExtract]_vars

(***************************************************************************)
(* Specification of split_text_into_chunks on its own: a text of up to     *)
(* MaxWords words, any chunk_size in 1..MaxChunkSize and any overlap in    *)
(* 0..MaxChunkSize + 1.                                                    *)
(***************************************************************************)
MaxWords == 9
MaxChunkSize == 4

ChunkInputs ==
    [text : {Text(1, 1, n, TRUE) : n \in 0..MaxWords},
     chunk_size : 1..MaxChunkSize,
     overlap : 0..(MaxChunkSize + 1)]

InitChunk ==
    /\ ocr_in \in ChunkInputs
    /\ ocr_out = [fn |-> "none"]
    /\ InitVS
    /\ pinecone_available = FALSE
    /\ weights = 1
    /\ budget = 0

CallSplitTextIntoChunks ==
    /\ ocr_out.fn = "none"
    /\ ocr_out' = [fn |-> "split_text_into_chunks",
                   res |-> split_text_into_chunks(ocr_in.text, ocr_in.chunk_size,
                                                  ocr_in.overlap)]
    /\ UNCHANGED <<ocr_in, vsVars>>

NextChunk == CallSplitTextIntoChunks

SpecChunk == InitChunk /\ [][NextChunk]_vars

(***************************************************************************)
(* Specification of the embedding cache: a service that is not connected   *)
(* to the remote index, started in a directory that may hold the snapshot  *)
(* of an earlier process, takes create_embeddings and search_vectors       *)
(* calls.  Here `last` is the last call with the strings it handed to the  *)
(* encoder, and `hist` counts, per string, the vectors computed and the    *)
(* vectors given out so far.                                               *)
(***************************************************************************)
EmbedCalls == 2
MaxTexts == 3

\* a question and the very string of the one-chunk document
EmbedStrings == {Text(7, 1, 4, TRUE), Text(1, 1, 120, TRUE)}
EmbedLists == UNION {[1..n -> EmbedStrings] : n \in 0..MaxTexts}

\* the snapshot an earlier process left of the one-chunk document
LeftoverFiles(w) ==
    LET chunks == split_text_into_chunks(Text(1, 1, 120, TRUE),
                                         DefaultChunkSize, DefaultOverlap).chunks
        emb == create_embeddings(chunks, EmptyCache, w, 0)
    IN  _store_vectors_json({}, 0, 0, "a.pdf", chunks, emb.embeddings,
                            Uuids(<<1, 0>>, Len(chunks))).files

Count(x, seq) == Cardinality({i \in 1..Len(seq) : seq[i] = x})

InitEmbed ==
    /\ ocr_in = IdleOcrIn
    /\ ocr_out = NoOcr
    /\ pinecone_available = FALSE
    /\ index = <<>>
    /\ visible = 0
    /\ weights \in Weights
    /\ files \in {{}, LeftoverFiles(weights)}
    /\ fsclock = 0
    /\ now = 0
    /\ embedding_cache = EmptyCache
    /\ call = Idle
    /\ last = [op |-> "none"]
    /\ hist = [computed |-> [t \in EmbedStrings |-> 0],
               given |-> [t \in EmbedStrings |-> {}],
               repeated |-> [t \in EmbedStrings |-> FALSE],
               failed |-> FALSE]
    /\ budget = EmbedCalls

\* create_embeddings(texts), called on the service
CallCreateEmbeddings(texts, failBatch) ==
    LET emb == create_embeddings(texts, embedding_cache, weights, failBatch)
    IN  /\ budget > 0
        /\ budget' = budget - 1
        /\ embedding_cache' = emb.cache
        /\ last' = [op |-> "create_embeddings", texts |-> texts,
                    cachedBefore |-> DOMAIN embedding_cache,
                    raised |-> emb.raised, encoded |-> emb.encoded,
                    embeddings |-> emb.embeddings]
        /\ hist' = [computed |-> [t \in EmbedStrings |->
                                     hist.computed[t] + Count(t, emb.encoded)],
                    given |-> [t \in EmbedStrings |->
                                  hist.given[t] \cup
                                  {emb.embeddings[i] :
                                      i \in {j \in 1..Len(emb.embeddings) : texts[j] = t}}],
                    repeated |-> [t \in EmbedStrings |->
                                     \/ hist.repeated[t]
                                     \/ (t \notin DOMAIN embedding_cache
                                         /\ Count(t, texts) > 1)],
                    failed |-> hist.failed \/ emb.raised]
        /\ UNCHANGED <<pinecone_available, index, visible, files, fsclock, now,
                       weights, call, ocr_in, ocr_out>>

\* search_vectors(query, top_k) of a service that is not connected: line 343,
\* _search_json_vectors; the query vector is the one of lines 408-421
CallSearchVectors(query, top_k, encOK) ==
    LET res == _search_json_vectors(query, top_k, files, embedding_cache, weights, encOK)
        qe == QueryEmbedding(query, embedding_cache, weights, encOK)
        embedded == res.ranked \/ res.failed
        encoded == IF embedded /\ qe.ok THEN qe.encoded ELSE <<>>
    IN  /\ budget > 0
        /\ budget' = budget - 1
        /\ ~pinecone_available
        /\ embedding_cache' = res.cache
        /\ last' = [op |-> "search_vectors", texts |-> <<query>>,
                    cachedBefore |-> DOMAIN embedding_cache,
                    raised |-> FALSE, encoded |-> encoded]
        /\ hist' = [hist EXCEPT
                       !.computed[query] = @ + Len(encoded),
                       !.given[query] = IF res.ranked THEN @ \cup {qe.vec} ELSE @,
                       !.failed = @ \/ res.failed]
        /\ UNCHANGED <<pinecone_available, index, visible, files, fsclock, now,
                       weights, call, ocr_in, ocr_out>>

NextEmbed ==
    \/ \E texts \in EmbedLists, b \in 0..1 : CallCreateEmbeddings(texts, b)
    \/ \E q \in EmbedStrings, k \in TopKs, e \in BOOLEAN : CallSearchVectors(q, k, e)

SpecEmbed == InitEmbed /\ [][NextEmbed]_vars

(***************************************************************************)
(* Specification of the searches of a service that is connected to the     *)
(* remote index, started where an earlier process may have left records in *)
(* the index and a snapshot in the directory.  The loop of search_vectors  *)
(* goes on by itself: after an attempt (and its sleep of two seconds) the  *)
(* next attempt is made, hence the fairness condition.                     *)
(***************************************************************************)
RetryCalls == 2

\* the records an earlier process upserted for the one-chunk document
LeftoverIndex(w) ==
    LET leftover == CHOOSE f \in LeftoverFiles(w) : TRUE
    IN  leftover.data.vectors

InitRetry ==
    /\ ocr_in = IdleOcrIn
    /\ ocr_out = NoOcr
    /\ pinecone_available = TRUE
    /\ weights \in Weights
    /\ index \in {<<>>, LeftoverIndex(weights)}
    /\ visible \in {0, Len(index)}
    /\ files \in {{}, LeftoverFiles(weights)}
    /\ fsclock = 0
    /\ now = 0
    /\ embedding_cache = EmptyCache
    /\ call = Idle
    /\ last = [op |-> "none"]
    /\ hist = [lastStored |-> NoStore, cleared |-> "no", wiped |-> FALSE,
               remoteFailed |-> FALSE, idReused |-> FALSE, redrawn |-> FALSE]
    /\ budget = RetryCalls

NextRetry ==
    \/ \E q \in Queries, k \in TopKs, e \in BOOLEAN : SearchBegin(q, k, e)
    \/ \E r \in RemoteModes, e \in BOOLEAN : SearchAttempt(r, e)
    \/ PineconeSync

SpecRetry ==
    /\ InitRetry
    /\ [][NextRetry]_vars
    /\ WF_vars(\E r \in RemoteModes, e \in BOOLEAN : SearchAttempt(r, e))

(***************************************************************************)
(* Part 4.  The chat endpoint (main.py) and AIService.chat_with_context    *)
(* (ai_service.py).  The language model is opaque: llm tells whether the   *)
(* chain answers, fails or times out; an answer is the symbolic string     *)
(* <<"answer", query, context>>.                                           *)
(***************************************************************************)
FallbackAnswer == "I'm having trouble generating a response right now."
NoInformationAnswer == "I don't have information about that in the document."
LlmOutcomes == {"ok", "fail", "timeout"}

\* the positional parameters of AIService.chat_with_context besides self:
\* query and context
ChatParams == 2
\* self.conversation_history[-4:]
HistoryWindow == 4

\* "\n\n".join(texts): the joined string is written as the list of its parts
JoinTexts(texts) == texts

\* AIService.chat_with_context called with the positional arguments args on a
\* service whose vector_store is None (main.py builds AIService() without a
\* vector service).  A call with more arguments than parameters raises
\* TypeError before the body, and so outside its try.
AIService_chat_with_context(args, llm, conversation_history) ==
    IF Len(args) > ChatParams \/ Len(args) < 1
    THEN [raised |-> "TypeError", answer |-> "",
          conversation_history |-> conversation_history]
    ELSE LET query == args[1]
             context == IF Len(args) >= 2 THEN args[2] ELSE <<>>
             chat_history == SubSeq(conversation_history,
                                    Max(1, Len(conversation_history) - HistoryWindow + 1),
                                    Len(conversation_history))
             response == <<"answer", query, context, chat_history>>
         IN  IF llm = "ok"
             THEN [raised |-> "none", answer |-> response,
                   conversation_history |->
                       Append(conversation_history,
                              [question |-> query, answer |-> response])]
             ELSE [raised |-> "none", answer |-> FallbackAnswer,
                   conversation_history |-> conversation_history]

\* POST /chat (main.py, chat_with_context); search_results is what
\* vector_service.search_vectors(request.query, top_k=3) returned
chat_with_context(request, search_results, llm, conversation_history) ==
    IF search_results = <<>>
    THEN [status |-> 200, answer |-> NoInformationAnswer, context_used |-> 0,
          relevance_score |-> 0, conversation_history |-> conversation_history]
    ELSE LET context == JoinTexts([i \in 1..Min(2, Len(search_results)) |->
                                      search_results[i].text])
             reply == AIService_chat_with_context(
                          <<request.query, context, request.history>>,
                          llm, conversation_history)
         IN  IF reply.raised # "none"
             THEN [status |-> 500, answer |-> "", context_used |-> 0,
                   relevance_score |-> 0,
                   conversation_history |-> reply.conversation_history]
             ELSE [status |-> 200, answer |-> reply.answer,
                   context_used |-> Len(search_results),
                   \* (scores are integers here: round(score, 3) keeps them)
                   relevance_score |-> search_results[1].score,
                   conversation_history |-> reply.conversation_history]

MaxHits == 3
MaxTurns == 1
ChatQueries == {Text(7, 1, 4, TRUE), Text(1, 1, 120, TRUE)}
ChatHits == [text : {Text(1, 1, 120, TRUE), Text(2, 1, 300, FALSE)}, score : {25}]
ChatRequests == [query : ChatQueries, history : SeqsUpTo({"turn"}, MaxTurns)]
ChatInputs ==
    [request : ChatRequests,
     search_results : UNION {[1..n -> ChatHits] : n \in 0..MaxHits},
     llm : LlmOutcomes,
     conversation_history : {<<>>}]

InitChat ==
    /\ ocr_in \in ChatInputs
    /\ ocr_out = [fn |-> "none"]
    /\ InitVS
    /\ pinecone_available = FALSE
    /\ weights = 1
    /\ budget = 0

CallChat ==
    /\ ocr_out.fn = "none"
    /\ ocr_out' = [fn |-> "chat",
                   res |-> chat_with_context(ocr_in.request, ocr_in.search_results,
                                             ocr_in.llm, ocr_in.conversation_history)]
    /\ UNCHANGED <<ocr_in, vsVars>>

NextChat == CallChat

SpecChat == InitChat /\ [][NextChat]_vars

(***************************************************************************)
(* Part 5.  calculate_door_area (door_schedule_parser.py)                  *)
(* A size string is a sequence of characters.  Numbers are exact fractions *)
(* [num, den]; an area is returned in thousandths of a square metre.       *)
(***************************************************************************)
\* digits, the decimal point, the separators x and the multiplication sign
\* (X is treated as the latter is), the two quotes, a blank and a letter
SizeChars == {"0", "5", "9", ".", "x", "×", "\"", "'", " ", "a"}
SizeDigits == {"0", "5", "9"}
DigitValue(c) == IF c = "0" THEN 0 ELSE IF c = "5" THEN 5 ELSE 9

InchLimit == 50
\* 2.54 = 127 / 50
InchNum == 127
InchDen == 50
CmPerMetre == 100
Thousand == 1000

\* size_str.replace('×', 'x').replace('X', 'x').replace('"', '').strip()
NormaliseSize(size_str) ==
    LET xs == [i \in 1..Len(size_str) |->
                  IF size_str[i] \in {"×", "X"} THEN "x" ELSE size_str[i]]
    IN  StripSeq(SelectSeq(xs, LAMBDA c : c # "\""))

\* the end of the longest run of characters of S that starts at i
\* (i - 1 when there is none)
RunEnd(s, i, S) ==
    IF i > Len(s) \/ s[i] \notin S THEN i - 1
    ELSE CHOOSE j \in i..Len(s) :
            /\ \A k \in i..j : s[k] \in S
            /\ j = Len(s) \/ s[j + 1] \notin S

\* \d+(?:\.\d+)? matched at i: the end of the match, i - 1 when it fails
NumberEnd(s, i) ==
    LET e == RunEnd(s, i, SizeDigits)
    IN  IF e < i THEN i - 1
        ELSE IF e + 2 <= Len(s) /\ s[e + 1] = "." /\ s[e + 2] \in SizeDigits
        THEN RunEnd(s, e + 2, SizeDigits)
        ELSE e

NoMatch == [ok |-> FALSE, g1 |-> <<>>, g2 |-> <<>>]

\* (\d+(?:\.\d+)?)\s*["\']?\s*[xX×]\s*(\d+(?:\.\d+)?)\s*["\']? matched at i
MatchAt(s, i) ==
    LET e1 == NumberEnd(s, i)
        quote == RunEnd(s, e1 + 1, {" "}) + 1
        blanks == IF quote <= Len(s) /\ s[quote] \in {"\"", "'"}
                  THEN quote + 1 ELSE quote
        sep == RunEnd(s, blanks, {" "}) + 1
        second == RunEnd(s, sep + 1, {" "}) + 1
        e2 == NumberEnd(s, second)
    IN  IF /\ e1 >= i
           /\ sep <= Len(s)
           /\ s[sep] \in {"x", "X", "×"}
           /\ e2 >= second
        THEN [ok |-> TRUE, g1 |-> SubSeq(s, i, e1), g2 |-> SubSeq(s, second, e2)]
        ELSE NoMatch

\* re.search: the match at the leftmost position that has one
re_search(s) ==
    LET starts == {i \in 1..Len(s) : MatchAt(s, i).ok}
    IN  IF starts = {} THEN NoMatch
        ELSE MatchAt(s, CHOOSE i \in starts : \A j \in starts : i <= j)

RECURSIVE DecimalValue(_)
DecimalValue(digits) ==
    IF digits = <<>> THEN 0
    ELSE 10 * DecimalValue(SubSeq(digits, 1, Len(digits) - 1))
         + DigitValue(digits[Len(digits)])

RECURSIVE PowerOfTen(_)
PowerOfTen(n) == IF n = 0 THEN 1 ELSE 10 * PowerOfTen(n - 1)

\* float(group) of a matched number
ToFloat(group) ==
    LET point == {i \in 1..Len(group) : group[i] = "."}
        decimals == IF point = {} THEN 0 ELSE Len(group) - (CHOOSE i \in point : TRUE)
    IN  [num |-> DecimalValue(SelectSeq(group, LAMBDA c : c # ".")),
         den |-> PowerOfTen(decimals)]

\* width < 50 and height < 50: the measurements are taken to be inches
IsInchesMut(width, height) ==
    width.num <= InchLimit * width.den /\ height.num <= InchLimit * height.den
IsInches(width, height) ==
    width.num < InchLimit * width.den /\ height.num < InchLimit * height.den

\* round(x, 3) in thousandths, x being num / unit thousandths: the nearest
\* thousandth; when x is halfway between two, the float that stands for x
\* decides, so either
RoundToThousandths(num, unit) ==
    LET q == num \div unit
        twice == 2 * (num % unit)
    IN  IF twice < unit THEN {q}
        ELSE IF twice > unit THEN {q + 1}
        ELSE {q, q + 1}

\* the values calculate_door_area(size_str) can return, in thousandths
calculate_door_area(size_str) ==
    LET match == re_search(NormaliseSize(size_str))
        width == ToFloat(match.g1)
        height == ToFloat(match.g2)
        inches == IsInches(width, height)
        width_cm == IF inches THEN [num |-> width.num * InchNum, den |-> width.den * InchDen]
                    ELSE width
        height_cm == IF inches THEN [num |-> height.num * InchNum, den |-> height.den * InchDen]
                     ELSE height
    IN  IF ~match.ok THEN {0}
        \* (width_cm / 100) * (height_cm / 100), counted in thousandths
        ELSE RoundToThousandths(width_cm.num * height_cm.num,
                                width_cm.den * height_cm.den
                                * ((CmPerMetre * CmPerMetre) \div Thousand))

MaxSizeLen == 5
SizeStrings == SeqsUpTo(SizeChars, MaxSizeLen)

InitArea ==
    /\ ocr_in \in [size_str : SizeStrings]
    /\ ocr_out = [fn |-> "none"]
    /\ InitVS
    /\ pinecone_available = FALSE
    /\ weights = 1
    /\ budget = 0

CallCalculateDoorArea ==
    /\ ocr_out.fn = "none"
    /\ \E area \in calculate_door_area(ocr_in.size_str) :
          ocr_out' = [fn |-> "calculate_door_area", res |-> area]
    /\ UNCHANGED <<ocr_in, vsVars>>

NextArea == CallCalculateDoorArea

SpecArea == InitArea /\ [][NextArea]_vars


(***************************************************************************)
(* Specification of extract_text_and_tables with failing units: a scanned  *)
(* or a native document whose pages are rendered and recognised one by one *)
(* (extract_text_with_tesseract, extract_text_with_paddle) and whose table *)
(* engines try their strategies one by one.  Page i, when recognised,      *)
(* reads as i characters, so the pages can be told apart in the result.    *)
(***************************************************************************)
\* max_pages (lines 586 and 627)
OcrMaxPages == 10
MaxOcrPages == 3
PageOutcomes == {"ok", "ocr_fail", "render_fail"}
PageRuns == UNION {[1..n -> PageOutcomes] : n \in 1..MaxOcrPages}

\* page_text of page i
PageText(i) == Repeat(<<"a">>, i)

\* lines 601-619 (641-659): the loop over the pages.  load_page, get_pixmap
\* and Image.open are outside the inner try, so their exception leaves the
\* loop; an exception of the recognition call skips the page.
RECURSIVE OcrLoop(_, _, _, _)
OcrLoop(pages, i, num_pages, ocr_text) ==
    IF i > num_pages THEN [raised |-> FALSE, ocr_text |-> ocr_text]
    ELSE IF pages[i] = "render_fail" THEN [raised |-> TRUE, ocr_text |-> ocr_text]
    ELSE IF pages[i] = "ocr_fail" THEN OcrLoop(pages, i + 1, num_pages, ocr_text)
    ELSE OcrLoop(pages, i + 1, num_pages, ocr_text \o PageText(i) \o <<" ", " ">>)

OcrPages(pages) ==
    LET num_pages == IF Len(pages) < OcrMaxPages THEN Len(pages) ELSE OcrMaxPages
        loop == OcrLoop(pages, 1, num_pages, <<>>)
    IN  IF loop.raised THEN <<>> ELSE StripSeq(loop.ocr_text)

\* lines 586-625
extract_text_with_tesseract(ocr_engine, pages) ==
    IF ocr_engine # "tesseract" THEN <<>> ELSE OcrPages(pages)

\* lines 627-666
extract_text_with_paddle(ocr_engine, pages) ==
    IF ocr_engine # "paddle" THEN <<>> ELSE OcrPages(pages)

\* A table engine: what opening the document does and what each of its
\* strategies does.  The strategies that raise come first; of the others at
\* most one finds tables.
StrategyOutcomes == {"raise", "none", "found"}
StrategyRuns(n) ==
    {s \in [1..n -> StrategyOutcomes] :
        \A i \in 1..n : \A j \in (i + 1)..n :
            /\ s[j] = "raise" => s[i] = "raise"
            /\ s[i] = "found" => s[j] = "none"}
EngineRuns(n) == [open : {"ok", "raise"}, strategies : StrategyRuns(n)]

\* the six settings of camelot (lines 263-267 and 291-295), the four
\* strategies of pdfplumber (lines 334-339), the three of tabula (419-423)
CamelotSettings == 6
PlumberStrategies == 4
TabulaStrategies == 3

\* `continue` after an exception, `if tables: break` after a success
StrategyContinuesMut(outcome) == outcome = "none"
StrategyContinues(outcome) == outcome # "found"

\* the loop over the strategies of one engine: the tables and the number of
\* strategies that were tried
RECURSIVE StrategyLoop(_, _, _)
StrategyLoop(strategies, i, finds) ==
    IF i > Len(strategies) THEN [tables |-> <<>>, tried |-> Len(strategies)]
    ELSE IF StrategyContinues(strategies[i])
    THEN StrategyLoop(strategies, i + 1, finds)
    ELSE [tables |-> IF strategies[i] = "found" THEN finds ELSE <<>>, tried |-> i]

EngineTables(run, finds) ==
    IF run.open = "raise" THEN [tables |-> <<>>, tried |-> 0]
    ELSE StrategyLoop(run.strategies, 1, finds)

\* lines 247-320
extract_tables_with_camelot_improved(run) == EngineTables(run, <<TableA>>)
\* lines 322-400
extract_tables_with_pdfplumber_improved(run) == EngineTables(run, <<TableA2, TableC>>)
\* lines 402-452
extract_tables_with_tabula(run) == EngineTables(run, <<TableC>>)

NoAnalysis == [k \in AnalysisKeys |-> FALSE]
QuietRun(n) == [open |-> "ok", strategies |-> [i \in 1..n |-> "none"]]

\* Either the pages vary and the table engines find nothing, or the table
\* engines vary and the single page is recognised.
RecoverInputs ==
    [pdf : {[kind |-> "ok", text |-> <<>>, pages |-> 1],
            [kind |-> "ok", text |-> Repeat(<<"a", "a", "a", " ">>, 25), pages |-> 1]},
     ocr_engine : {"tesseract", "paddle"},
     pages : PageRuns,
     camelot : {QuietRun(CamelotSettings)},
     plumber : {QuietRun(PlumberStrategies)},
     tabula : {QuietRun(TabulaStrategies)}]
    \cup
    [pdf : {[kind |-> "ok", text |-> <<>>, pages |-> 1],
            [kind |-> "ok", text |-> Repeat(<<"a", "a", "a", " ">>, 25), pages |-> 1]},
     ocr_engine : {"tesseract", "paddle"},
     pages : {<<"ok">>},
     camelot : EngineRuns(CamelotSettings),
     plumber : EngineRuns(PlumberStrategies),
     tabula : EngineRuns(TabulaStrategies)]

InitRecover ==
    /\ ocr_in \in RecoverInputs
    /\ ocr_out = [fn |-> "none"]
    /\ InitVS
    /\ pinecone_available = FALSE
    /\ weights = 1
    /\ budget = 0

\* extract_text_and_tables(file_content, force_ocr=True) on the document
CallExtractWithFailures ==
    /\ ocr_out.fn = "none"
    /\ LET ocr_read == IF ocr_in.ocr_engine = "tesseract"
                       THEN extract_text_with_tesseract(ocr_in.ocr_engine, ocr_in.pages)
                       ELSE extract_text_with_paddle(ocr_in.ocr_engine, ocr_in.pages)
           camelot == extract_tables_with_camelot_improved(ocr_in.camelot)
           plumber == extract_tables_with_pdfplumber_improved(ocr_in.plumber)
           tabula == extract_tables_with_tabula(ocr_in.tabula)
       IN  ocr_out' = [fn |-> "extract_with_failures",
                       res |-> extract_text_and_tables(
                                  ocr_in.pdf, NoAnalysis, TRUE, ocr_in.ocr_engine,
                                  ocr_read, camelot.tables, plumber.tables,
                                  tabula.tables),
                       tried |-> [camelot |-> camelot.tried,
                                  pdfplumber |-> plumber.tried,
                                  tabula |-> tabula.tried]]
    /\ UNCHANGED <<ocr_in, vsVars>>

NextRecover == CallExtractWithFailures

SpecRecover == InitRecover /\ [][NextRecover]_vars


(***************************************************************************)
(* Specification of the upload endpoint (main.py, upload_pdf) on a service *)
(* that is not connected to the remote index, so that store_vectors is one *)
(* step.  ocr_in is the request, ocr_out the answer of the endpoint        *)
(* together with what store_vectors returned to it.                        *)
(***************************************************************************)
UploadCalls == 2

\* validate_file (pdf_processor.py, lines 64-83): the HTTPException, if any
Validations == {"ok", "bad_extension", "too_large", "empty"}
ValidationError(v) ==
    [status_code |-> 400,
     detail |-> IF v = "bad_extension" THEN <<"The file extension must be PDF.">>
                ELSE IF v = "too_large" THEN <<"File too large">>
                ELSE <<"File is empty">>]

\* store_vectors (vector_service.py, lines 176-207) of a service with
\* pinecone_available = False: what it returns or that it raised, and the
\* directory and the cache afterwards
store_vectors(filename, full_text, fs, clock, ctime, cache, w, uuids, failBatch) ==
    LET chunks == split_text_into_chunks(full_text, DefaultChunkSize, DefaultOverlap).chunks
        emb == create_embeddings(chunks, cache, w, failBatch)
        js == _store_vectors_json(fs, clock, ctime, filename, chunks,
                                  emb.embeddings, uuids)
    IN  IF IsBlank(full_text)
        THEN [raised |-> FALSE, result |-> ErrorResult(filename, "Empty text provided"),
              files |-> fs, cache |-> cache]
        ELSE IF chunks = <<>>
        THEN [raised |-> FALSE,
              result |-> ErrorResult(filename, "No chunks created from text"),
              files |-> fs, cache |-> cache]
        ELSE IF emb.raised
        THEN [raised |-> TRUE, result |-> [status |-> "exception"],
              files |-> fs, cache |-> emb.cache]
        ELSE [raised |-> FALSE, result |-> js.result, files |-> js.files,
              cache |-> emb.cache]

\* lines 59-66: the body returned after store_vectors returned `result`
UploadBody(filename, result) ==
    [status |-> "success",
     filename |-> DictGet(result, "filename", filename),
     chunks_stored |-> DictGet(result, "chunks_stored", 0),
     total_vectors |-> DictGet(result, "total_vectors", 0),
     upload_success |-> DictGet(result, "upload_success", TRUE)]

NoBody == [status |-> "none"]
NotCalled == [status |-> "not called"]

\* upload_pdf, lines 44-71: an HTTPException is raised again as it is, any
\* other exception becomes a 500
upload_pdf(filename, validation, pdf, store) ==
    LET native == extract_text_from_pdf(pdf)
    IN  IF validation # "ok"
        THEN [status_code |-> 400, error |-> ValidationError(validation),
              body |-> NoBody, stored |-> NotCalled]
        ELSE IF native.raised
        THEN [status_code |-> native.error.status_code, error |-> native.error,
              body |-> NoBody, stored |-> NotCalled]
        ELSE IF store.raised
        THEN [status_code |-> 500,
              error |-> [status_code |-> 500, detail |-> <<"Upload failed", "str(e)">>],
              body |-> NoBody, stored |-> store.result]
        ELSE [status_code |-> 200, error |-> NoError,
              body |-> UploadBody(filename, store.result), stored |-> store.result]

\* the documents: a failure of PyPDF2, or the native text (none for a
\* scanned document)
UploadPdfs == [kind : NativeFailures, text : {Text(1, 1, 0, TRUE)}, pages : {0}]
              \cup [kind : {"ok"}, text : SmallDocs, pages : {1}]

InitUpload ==
    /\ InitService
    /\ pinecone_available = FALSE
    /\ budget = UploadCalls

\* one request to /upload-pdf
UploadPdf(filename, validation, pdf, stream, failBatch) ==
    /\ call = Idle
    /\ budget > 0
    /\ budget' = budget - 1
    /\ LET native == extract_text_from_pdf(pdf)
           reaches == validation = "ok" /\ ~native.raised
           nchunks == Len(split_text_into_chunks(native.text, DefaultChunkSize,
                                                 DefaultOverlap).chunks)
           store == IF reaches
                    THEN store_vectors(filename, native.text, files, now, fsclock + 1,
                                       embedding_cache, weights,
                                       Uuids(stream, nchunks), failBatch)
                    ELSE [raised |-> FALSE, result |-> NotCalled,
                          files |-> files, cache |-> embedding_cache]
       IN  /\ ocr_in' = [filename |-> filename, validation |-> validation, pdf |-> pdf]
           /\ ocr_out' = [fn |-> "upload_pdf",
                          res |-> upload_pdf(filename, validation, pdf, store)]
           /\ files' = store.files
           /\ fsclock' = IF store.files # files THEN fsclock + 1 ELSE fsclock
           /\ embedding_cache' = store.cache
    /\ UNCHANGED <<pinecone_available, index, visible, now, weights, call, last, hist>>

NextUpload ==
    \E f \in Filenames, v \in Validations, pdf \in UploadPdfs, st \in Streams, b \in 0..1 :
        UploadPdf(f, v, pdf, st, b)

SpecUpload == InitUpload /\ [][NextUpload]_vars


(***************************************************************************)
(* Specification of _search_json_vectors on its own: a directory that      *)
(* holds no snapshot, or the snapshot of the one-chunk or of the two-chunk *)
(* document, and any top_k the request model accepts (SearchQuery.top_k is *)
(* an int without bounds) in -1..MaxTopK.                                  *)
(***************************************************************************)
LocalCalls == 2
MaxTopK == 3

\* the snapshot an earlier process left of the document `doc`
SnapshotFiles(doc, w) ==
    LET chunks == split_text_into_chunks(doc, DefaultChunkSize, DefaultOverlap).chunks
        emb == create_embeddings(chunks, EmptyCache, w, 0)
    IN  _store_vectors_json({}, 0, 0, "a.pdf", chunks, emb.embeddings,
                            Uuids(<<1, 0>>, Len(chunks))).files

InitLocal ==
    /\ ocr_in = IdleOcrIn
    /\ ocr_out = NoOcr
    /\ pinecone_available = FALSE
    /\ index = <<>>
    /\ visible = 0
    /\ weights \in Weights
    /\ files \in {{}} \cup {SnapshotFiles(doc, weights) :
                              doc \in {Text(1, 1, 120, TRUE), Text(2, 1, 301, TRUE)}}
    /\ fsclock = 0
    /\ now = 0
    /\ embedding_cache = EmptyCache
    /\ call = Idle
    /\ last = [op |-> "none"]
    /\ hist = [lastStored |-> NoStore, cleared |-> "no", wiped |-> FALSE,
               remoteFailed |-> FALSE, idReused |-> FALSE, redrawn |-> FALSE]
    /\ budget = LocalCalls

\* _search_json_vectors(query, top_k), called on the service
CallSearchJsonVectors(query, top_k, encOK) ==
    LET res == _search_json_vectors(query, top_k, files, embedding_cache, weights, encOK)
    IN  /\ budget > 0
        /\ budget' = budget - 1
        /\ embedding_cache' = res.cache
        /\ last' = [op |-> "_search_json_vectors", query |-> query,
                    top_k |-> top_k, results |-> res.results,
                    ranked |-> res.ranked]
        /\ UNCHANGED <<pinecone_available, index, visible, files, fsclock, now,
                       weights, call, hist, ocr_in, ocr_out>>

NextLocal ==
    \E q \in EmbedStrings, k \in (0 - 1)..MaxTopK, e \in BOOLEAN :
        CallSearchJsonVectors(q, k, e)

SpecLocal == InitLocal /\ [][NextLocal]_vars

(***************************************************************************)
(* Properties                                                              *)
(***************************************************************************)
Range(seq) == {seq[i] : i \in 1..Len(seq)}

\* the records of the snapshot file named `name`
SnapshotOf(name) == (CHOOSE f \in files : f.name = name).data.vectors

\* C1: after a store_vectors call returned success, a following
\* search_vectors call with a non-empty query and top_k >= 1, whose query
\* the encoder embeds, returns a non-empty list made of chunks of the stored
\* document, whichever backend the store used and whichever backend the
\* search reaches.
C1_ReadYourWrites ==
    (/\ last.op = "search"
     /\ ~IsBlank(last.query)
     /\ last.top_k >= 1
     /\ ~last.embedFailed
     /\ hist.lastStored # NoStore)
    => /\ last.results # <<>>
       /\ \A i \in 1..Len(last.results) :
             /\ last.results[i].filename = hist.lastStored.filename
             /\ last.results[i].text.c = hist.lastStored.c

\* C2 (as stated): if the remote index raises at any point of a store_vectors
\* call, the call returns success with storage_method json_backup and the
\* snapshot holds exactly the chunks and embeddings of the call, in order,
\* record i carrying chunk_index i.
SnapshotHoldsCall ==
    /\ last.result.status = "success"
    /\ last.result.storage_method = "json_backup"
    /\ \E f \in files :
          /\ f.name = last.result.backup_file
          /\ f.data.chunks = last.chunks
          /\ Len(f.data.vectors) = Len(last.chunks)
          /\ Len(last.embeddings) = Len(last.chunks)
          /\ \A k \in 1..Len(last.chunks) :
                /\ f.data.vectors[k].metadata.chunk_index = k - 1
                /\ f.data.vectors[k].metadata.text = last.chunks[k]
                /\ f.data.vectors[k].values = last.embeddings[k]

C2_AnyRemoteFailure ==
    (last.op = "store" /\ (last.upsertRaised \/ last.pollRaised))
    => SnapshotHoldsCall

\* C2 (amended): if the remote index raises during an upsert of a
\* store_vectors call, also after earlier batches of the call were accepted,
\* the call returns success with storage_method json_backup and the snapshot
\* holds exactly the chunks and embeddings of the call, in order, record i
\* carrying chunk_index i; a failure of the consistency poll is swallowed and
\* the call answers storage_method pinecone without writing a snapshot.
C2_UpsertFailureFallsBack ==
    /\ (last.op = "store" /\ last.upsertRaised) => SnapshotHoldsCall
    /\ (last.op = "store" /\ last.pollRaised)
       => /\ last.result.status = "success"
          /\ last.result.storage_method = "pinecone"
          /\ last.result.backup_file = NoFile

C2_Witness ==
    /\ last.op = "store"
    /\ last.upsertRaised
    /\ last.batchesDone >= 1
    /\ Len(last.chunks) > UpsertBatchSize

C4_RemoteAlwaysFirst ==
    (last.op \in {"store", "search"} /\ last.trace # <<>>)
    => last.trace[1] = "remote"

\* C4 (amended): every store_vectors and search_vectors call of a service
\* whose startup connection succeeded tries the remote index before the
\* local snapshot, whatever happened in earlier calls; a service whose
\* startup connection failed never tries the remote index.
C4_RemoteFirstWhenConnected ==
    (last.op \in {"store", "search"} /\ last.trace # <<>>)
    => IF pinecone_available
       THEN last.trace[1] = "remote"
       ELSE last.trace = <<"local">>

C4_Witness ==
    /\ last.op = "store"
    /\ last.priorFail
    /\ last.trace = <<"remote">>
    /\ last.result.storage_method = "pinecone"

\* the last call was a search that ran the local-snapshot search
LocalSearched == last.op = "search" /\ "local" \in Range(last.trace)

\* the records of the snapshot that the last search read
ReadSnapshot ==
    IF last.read = {} THEN <<>>
    ELSE SnapshotOf(CHOOSE name \in last.read : TRUE)

\* min(top_k, n) results drawn from `vectors`, by non-increasing score, and
\* no record left out scores strictly more than a returned one
TopKOf(vectors) ==
    LET res == last.results
        q == Encode(weights, last.query)
        returned == {res[i].id : i \in 1..Len(res)}
    IN  /\ Len(res) = Min(last.top_k, Len(vectors))
        /\ \A i \in 1..Len(res) :
              \E k \in 1..Len(vectors) :
                 res[i] = Hit(vectors[k], Dot(vectors[k].values, q))
        /\ \A i, j \in 1..Len(res) : i < j => res[i].score >= res[j].score
        /\ \A k \in 1..Len(vectors) :
              vectors[k].id \notin returned
              => \A i \in 1..Len(res) : Dot(vectors[k].values, q) <= res[i].score

\* C5 (as stated): the local-snapshot search over a snapshot of n records
\* returns exactly min(top_k, n) results, by non-increasing score, and no
\* record left out scores strictly more than a returned one.
C5_LocalTopK == LocalSearched => TopKOf(ReadSnapshot)

\* C5 (amended): the local-snapshot search over a snapshot of n records,
\* when the query embedding is cached or the encoder computes it, returns
\* exactly min(top_k, n) results, by non-increasing score, and no record
\* left out scores strictly more than a returned one; when the encoder
\* raises, it returns an empty list.
C5_LocalTopKWhenEmbedded ==
    LocalSearched
    => IF last.ranked \/ ReadSnapshot = <<>>
       THEN TopKOf(ReadSnapshot)
       ELSE last.results = <<>>

C5_Witness ==
    /\ LocalSearched
    /\ last.ranked
    /\ Len(ReadSnapshot) = 2
    /\ last.top_k = 1
    /\ weights = 1

\* C6: a local-snapshot search reads exactly one snapshot file, the one of
\* greatest creation time among the existing ones, and every result is a
\* record of that file: records held only by older files are not returned.
C6_LatestSnapshotOnly ==
    (LocalSearched /\ files # {})
    => \E f \in files :
          /\ last.read = {f.name}
          /\ \A g \in files : g.ctime <= f.ctime
          /\ \A i \in 1..Len(last.results) :
                \E k \in 1..Len(f.data.vectors) :
                   last.results[i] = Hit(f.data.vectors[k], last.results[i].score)

C6_Witness ==
    /\ LocalSearched
    /\ last.ranked
    /\ \E g \in files : /\ g.name \notin last.read
                        /\ Range(g.data.chunks) \cap
                           {ReadSnapshot[k].metadata.text :
                               k \in 1..Len(ReadSnapshot)} = {}

\* C7: after the upserts of a store succeeded, the consistency wait polls
\* the remote at most max_wait (30) times, and store_vectors returns success
\* with storage_method pinecone whether the count was seen, never seen
\* within the wait, or the stats call raised on every attempt.
C7_BoundedWait ==
    /\ (call.op = "store" /\ call.pc = "wait") => call.obs.polls < 30
    /\ (last.op = "store" /\ last.waited)
       => /\ last.polls <= 30
          /\ last.result.status = "success"
          /\ last.result.storage_method = "pinecone"

C7_Witness ==
    /\ last.op = "store"
    /\ last.waited
    /\ last.polls = 30
    /\ ~last.pollAnswered
    /\ ~last.synced
    /\ last.result.storage_method = "pinecone"

DistinctIds(vectors) == Cardinality(IdsOf(vectors)) = Len(vectors)

\* C8 (as stated): no two records ever stored share the same id, within one
\* store call and across store calls, also when the same filename is stored
\* twice.
C8_UniqueIds ==
    /\ ~hist.idReused
    /\ \A f \in files : DistinctIds(f.data.vectors)
    /\ call.op = "store" => DistinctIds(call.vectors)

\* C8 (amended): the records of one store call have pairwise distinct ids,
\* and a record is stored under the id of a record of an earlier call only
\* if it has the same filename and chunk index and drew the same eight hex
\* digits; there is no check for that case.
C8_UniqueUnlessRedrawn ==
    /\ hist.idReused => hist.redrawn
    /\ \A f \in files : DistinctIds(f.data.vectors)
    /\ call.op = "store" => DistinctIds(call.vectors)

C8_Witness ==
    /\ ~hist.idReused
    /\ \E f, g \in files :
          /\ f # g
          /\ f.data.filename = g.data.filename
          /\ Len(f.data.vectors) = 2
          /\ Len(g.data.vectors) = 2

\* analysis.get(key, False) is true
Flag(key) == key \in DOMAIN ocr_in.analysis /\ ocr_in.analysis[key]

C10_QualityRules ==
    ocr_out.fn = "check_text_quality"
    => LET text == InText
           res == ocr_out.res
           short == StripLen(text) < 50
           fewWords == IF ocr_in.num_pages = 0 THEN TRUE
                       ELSE WordCount(text) < 20 * ocr_in.num_pages
           special == 100 * SpecialCount(text) > 30 * Len(text)
       IN  /\ res.quality \in {"poor", "good"}
           /\ res.quality = "poor" <=> (short \/ fewWords \/ special)
           /\ res.reason = IF short THEN "insufficient_text"
                           ELSE IF fewWords THEN "too_few_words_per_page"
                           ELSE IF special THEN "too_many_special_chars"
                           ELSE "text_extracted_successfully"
           /\ res.needs_ocr = FALSE <=> res.quality = "good"

C10_Witness ==
    /\ ocr_out.fn = "check_text_quality"
    /\ ocr_out.res.reason = "too_many_special_chars"
    /\ ocr_in.num_pages > 0

\* C11: if native text extraction fails structurally (corrupt, encrypted or
\* zero-page PDF), extract_text_and_tables fails the request with that
\* error, and neither OCR nor table recovery is run for the document.
C11_StructuralFailureIsFatal ==
    (ocr_out.fn = "extract_text_and_tables" /\ ocr_in.pdf.kind \in NativeFailures)
    => /\ ocr_out.res.raised
       /\ ocr_out.res.error = NativeError(ocr_in.pdf.kind)
       /\ ocr_out.res.ran \cap {"ocr", "camelot", "pdfplumber", "tabula"} = {}

\* C12: the primary text chosen by extract_text_and_tables is the OCR text
\* alone when it is non-empty and longer than 1.2 times the native text;
\* native text, separator, OCR text when both are non-empty and the OCR text
\* is not that much longer; the single non-empty text when only one exists;
\* and a no-extractable-text error when both are empty.  The table dump, if
\* any, follows the primary text (the whole is returned stripped).
C12_PrimaryTextChoice ==
    ocr_out.fn = "extract_text_and_tables"
    => LET res == ocr_out.res
           native == IF ocr_in.pdf.kind = "ok" THEN ocr_in.pdf.text ELSE <<>>
           ocr == IF "ocr" \in res.ran THEN ocr_in.ocr_read ELSE <<>>
           muchLonger == 10 * Len(ocr) > 12 * Len(native)
           expected == IF ocr # <<>> /\ muchLonger THEN ocr
                       ELSE IF native # <<>> /\ ocr # <<>>
                       THEN native \o OcrSeparator \o ocr
                       ELSE IF native # <<>> THEN native
                       ELSE ocr
       IN  IF native = <<>> /\ ocr = <<>>
           THEN /\ res.raised
                /\ res.error.detail = <<"PDF contains no extractable text">>
           ELSE /\ ~res.raised
                /\ res.final_text = StripSeq(expected \o TableDump(res.tables))

C12_Witness ==
    /\ ocr_out.fn = "extract_text_and_tables"
    /\ ocr_out.res.how = "combined"
    /\ Len(ocr_out.res.ocr_text) = 120
    /\ Len(ocr_out.res.pdf_text) = 100
    /\ ocr_out.res.tables = <<TableA, TableC>>

\* C13: a chunking configuration with overlap >= chunk_size is rejected with
\* an error for every input text; split_text_into_chunks never returns a
\* chunk list for it.
C13_InvalidConfigRejected ==
    (ocr_out.fn = "split_text_into_chunks" /\ ocr_in.overlap >= ocr_in.chunk_size)
    => ocr_out.res.raised

\* the words of a text, word k of content c being <<c, k>>
WordsOf(t) == [i \in 1..NumWords(t) |-> <<t.c, t.lo + i - 1>>]

\* the first `keep` words of every chunk but the last, then the last chunk
RECURSIVE Rebuilt(_, _)
Rebuilt(chunks, keep) ==
    IF chunks = <<>> THEN <<>>
    ELSE IF Len(chunks) = 1 THEN WordsOf(chunks[1])
    ELSE SubSeq(WordsOf(chunks[1]), 1, keep) \o Rebuilt(Tail(chunks), keep)

\* C14: for any text and 0 <= overlap < chunk_size, split_text_into_chunks
\* loses no word: the first (chunk_size - overlap) words of every chunk but
\* the last, followed by the words of the last chunk, are the words of the
\* text in order; every chunk is non-empty and has at most chunk_size words;
\* an empty or whitespace-only text gives the empty list.
C14_NoWordLost ==
    (ocr_out.fn = "split_text_into_chunks" /\ ocr_in.overlap < ocr_in.chunk_size)
    => LET chunks == ocr_out.res.chunks
       IN  /\ ~ocr_out.res.raised
           /\ \A k \in 1..Len(chunks) :
                 /\ NumWords(chunks[k]) >= 1
                 /\ NumWords(chunks[k]) <= ocr_in.chunk_size
           /\ \A k \in 1..(Len(chunks) - 1) :
                 NumWords(chunks[k]) >= ocr_in.chunk_size - ocr_in.overlap
           /\ Rebuilt(chunks, ocr_in.chunk_size - ocr_in.overlap) = WordsOf(ocr_in.text)
           /\ IsBlank(ocr_in.text) => chunks = <<>>

C14_Witness ==
    /\ ocr_out.fn = "split_text_into_chunks"
    /\ ocr_in.overlap = 1
    /\ ocr_in.chunk_size = 3
    /\ NumWords(ocr_in.text) = 8
    /\ Len(ocr_out.res.chunks) = 4

C16_ChatAlwaysAnswers ==
    (ocr_out.fn = "chat" /\ ocr_in.search_results # <<>>)
    => /\ ocr_out.res.status = 200
       /\ ocr_out.res.answer # ""
       /\ ocr_in.llm # "ok" => ocr_out.res.answer = FallbackAnswer

\* what the size string parses as
ParsedSize == re_search(NormaliseSize(ocr_in.size_str))
ParsedWidth == ToFloat(ParsedSize.g1)
ParsedHeight == ToFloat(ParsedSize.g2)

\* res thousandths is num / unit thousandths rounded: it is within a half
\* of it
IsRounded(res, num, unit) ==
    LET diff == num - res * unit
    IN  2 * diff <= unit /\ -2 * diff <= unit

RaisedWithoutRemoteResults ==
    /\ last.op = "search"
    /\ last.attemptRaised
    /\ ~(last.trace = <<"remote">> /\ last.results # <<>>)

RetryingWithinBound ==
    call.op = "search"
    => /\ call.attempt < MaxRetries
       /\ call.obs.attempts = call.attempt
       /\ call.obs.yielded = 0

\* a completed search made at most max_retries remote attempts; the one
\* attempt that returned results, if any, was the last and its results were
\* returned; an empty remote result was returned after max_retries attempts
RetriedWithinBound ==
    last.op = "search"
    => /\ last.attempts <= MaxRetries
       /\ last.yielded <= 1
       /\ last.yielded = 1 => (last.trace = <<"remote">> /\ last.results # <<>>
                               /\ last.final = "matches")
       /\ (last.trace = <<"remote">> /\ last.results = <<>>)
          => last.attempts = MaxRetries

\* C19: when the remote backend is in use, search_vectors makes at most
\* max_retries (3) remote attempts, returns the first non-empty remote result
\* as soon as an attempt yields it, returns an empty list once the last
\* attempt is empty too, and always terminates.
C19_BoundedRetries ==
    /\ [](RetryingWithinBound /\ RetriedWithinBound)
    /\ (call.op = "search") ~> (call = Idle)

\* three attempts, each with zero results, none raising: the empty list
C19_Witness ==
    /\ last.op = "search"
    /\ last.trace = <<"remote">>
    /\ last.attempts = MaxRetries
    /\ ~last.remoteRaised
    /\ last.final \in {"empty", "matches"}
    /\ last.results = <<>>

\* the position in the snapshot read of the record returned as hit
PositionOf(hit) ==
    CHOOSE k \in 1..Len(ReadSnapshot) : ReadSnapshot[k].id = hit.id

\* C20: when two records of the local snapshot have equal similarity to the
\* query, the local-snapshot search ranks the one stored earlier (lower
\* position in the snapshot) before the one stored later.
C20_EarlierWinsTies ==
    (LocalSearched /\ last.ranked)
    => \A i, j \in 1..Len(last.results) :
          (i < j /\ last.results[i].score = last.results[j].score)
          => PositionOf(last.results[i]) < PositionOf(last.results[j])

RECURSIVE RecognisedText(_, _)
RecognisedText(pages, i) ==
    IF i > Len(pages) THEN <<>>
    ELSE (IF pages[i] = "ok" THEN PageText(i) \o <<" ", " ">> ELSE <<>>)
         \o RecognisedText(pages, i + 1)

\* The strategies an engine has to try: all up to the first that finds
\* tables.
MustTry(run) ==
    LET found == {i \in 1..Len(run.strategies) : run.strategies[i] = "found"}
    IN  IF found = {} THEN Len(run.strategies)
        ELSE CHOOSE i \in found : \A j \in found : i <= j

Yield(run, finds) ==
    IF run.open = "ok" /\ \E i \in 1..Len(run.strategies) : run.strategies[i] = "found"
    THEN finds ELSE <<>>

\* The table side of the call: a failing strategy or engine contributes
\* nothing, the strategies after it are tried, and the next engine is asked
\* exactly when the line of the orchestrator says so.
TableFailuresIsolated ==
    /\ "camelot" \in ocr_out.res.ran
    /\ ocr_in.camelot.open = "ok" => ocr_out.tried.camelot = MustTry(ocr_in.camelot)
    /\ "pdfplumber" \in ocr_out.res.ran
       <=> Len(Yield(ocr_in.camelot, <<TableA>>)) < 2
    /\ ("pdfplumber" \in ocr_out.res.ran /\ ocr_in.plumber.open = "ok")
       => ocr_out.tried.pdfplumber = MustTry(ocr_in.plumber)
    /\ "tabula" \in ocr_out.res.ran
       <=> (Yield(ocr_in.camelot, <<TableA>>) = <<>>
            /\ Yield(ocr_in.plumber, <<TableA2, TableC>>) = <<>>)
    /\ ("tabula" \in ocr_out.res.ran /\ ocr_in.tabula.open = "ok")
       => ocr_out.tried.tabula = MustTry(ocr_in.tabula)

\* The call raises only the error of a document without any text.
OnlyNoTextError ==
    ocr_out.res.raised
    => /\ ocr_out.res.error.status_code = 400
       /\ ocr_out.res.error.detail = <<"PDF contains no extractable text">>
       /\ ocr_out.res.pdf_text = <<>>
       /\ ocr_out.res.ocr_text = <<>>

C22_StrategyWitness ==
    /\ ocr_out.fn = "extract_with_failures"
    /\ ocr_in.camelot.open = "ok"
    /\ ocr_in.camelot.strategies[1] = "raise"
    /\ ocr_in.camelot.strategies[2] = "found"
    /\ ocr_out.tried.camelot = 2
    /\ ocr_out.res.tables # <<>>

(***************************************************************************)
(* C23: create_embeddings keeps the order of its input (SpecEmbed)         *)
(***************************************************************************)
\* C23: whenever create_embeddings returns, it returns one vector per input
\* text, vector i is the embedding of texts[i] whether position i was a
\* cache hit or a miss, and every text of the call is in the cache with
\* that vector.
C23_OneVectorPerText ==
    (last.op = "create_embeddings" /\ ~last.raised)
    => /\ Len(last.embeddings) = Len(last.texts)
       /\ \A i \in 1..Len(last.texts) :
             /\ last.embeddings[i] = Encode(weights, last.texts[i])
             /\ last.texts[i] \in DOMAIN embedding_cache
             /\ embedding_cache[last.texts[i]] = Encode(weights, last.texts[i])

\* A miss, a hit and a miss, of two strings with different embeddings.
C23_Witness ==
    /\ last.op = "create_embeddings"
    /\ ~last.raised
    /\ Len(last.texts) = 3
    /\ last.texts[1] \notin last.cachedBefore
    /\ last.texts[2] \in last.cachedBefore
    /\ last.texts[3] = last.texts[1]
    /\ last.embeddings[1] # last.embeddings[2]
    /\ Len(last.encoded) = 2

(***************************************************************************)
(* C24: the names of the local snapshots (Spec)                            *)
(***************************************************************************)
\* C24: every step that writes a snapshot file creates it under a name no
\* file of the directory had before the step, so no local write replaces
\* the snapshot of another store.
C24_FreshSnapshotName ==
    [][\A f \in files' : f \notin files => f.name \notin {g.name : g \in files}]_vars

(***************************************************************************)
(* C25: the errors of extract_text_from_pdf (SpecExtract)                  *)
(***************************************************************************)
\* C25: for an encrypted document and for a document without pages,
\* extract_text_from_pdf raises an HTTPException of status 400 whose detail
\* is the specific reason, not the generic 500.
C25_SpecificClientError ==
    ocr_out.fn = "extract_text_and_tables"
    => /\ ocr_in.pdf.kind = "encrypted"
          => ocr_out.res.native_error
             = [status_code |-> 400,
                detail |-> <<"Password protected PDF not supported">>]
       /\ ocr_in.pdf.kind = "zero_pages"
          => ocr_out.res.native_error
             = [status_code |-> 400, detail |-> <<"PDF contains no pages">>]

(***************************************************************************)
(* C26: what a report of synced says (Spec)                                *)
(***************************************************************************)
\* C26 as stated: when the wait of a store call has reported synced, every
\* record upserted by that call is counted in the remote index (the counted
\* records are the first `visible` of the index, the records of the call
\* its last ones).
C26_SyncedMeansCounted ==
    (call = Idle /\ last.op = "store" /\ last.synced)
    => visible = Len(index)

\* C26, amended: when the wait has reported synced, the total number of
\* records counted in the index is at least the number the call upserted;
\* all records of the call are known to be counted only if the index holds
\* no other record.
C26_SyncedMeansTotalReached ==
    (call = Idle /\ last.op = "store" /\ last.synced)
    => /\ visible >= last.result.total_vectors
       /\ Len(index) = last.result.total_vectors => visible = Len(index)

\* A store that was reported synced on an index that held the records of an
\* earlier upload, with none of its own records counted yet.
C26_Witness ==
    /\ call = Idle
    /\ last.op = "store"
    /\ last.synced
    /\ Len(index) > last.result.total_vectors
    /\ visible = Len(index) - last.result.total_vectors

(***************************************************************************)
(* C27: a batch on which the encoder raises (SpecEmbed)                    *)
(***************************************************************************)
\* C27: create_embeddings never raises, also when the encoder raised on a
\* batch: it returns one vector per text.
C27_BatchFailureTolerated ==
    last.op = "create_embeddings"
    => /\ ~last.raised
       /\ Len(last.embeddings) = Len(last.texts)

(***************************************************************************)
(* C28: the text extract_text_and_tables returns (SpecExtract)             *)
(***************************************************************************)
\* C28: extract_text_and_tables either raises the no-extractable-text error
\* or returns a final_text that still has a character after stripping.
C28_TextOrError ==
    ocr_out.fn = "extract_text_and_tables"
    => \/ /\ ocr_out.res.raised
          /\ ocr_out.res.error.detail = <<"PDF contains no extractable text">>
       \/ /\ ~ocr_out.res.raised
          /\ ocr_out.res.final_text # <<>>

(***************************************************************************)
(* C29: the answer of the upload endpoint (SpecUpload)                     *)
(***************************************************************************)
\* C29: the upload endpoint answers status success only when store_vectors
\* returned success and stored at least one chunk; when storage reported an
\* error, the answer does not report success.
C29_SuccessOnlyWhenStored ==
    (ocr_out.fn = "upload_pdf" /\ ocr_out.res.body.status = "success")
    => /\ ocr_out.res.stored.status = "success"
       /\ ocr_out.res.stored.chunks_stored >= 1

(***************************************************************************)
(* C30: a local search for no result (SpecLocal)                           *)
(***************************************************************************)
\* C30: a search of the local snapshot with top_k = 0 returns the empty
\* list, whatever the snapshot holds.
C30_ZeroTopKIsEmpty ==
    (last.op = "_search_json_vectors" /\ last.top_k = 0)
    => last.results = <<>>

====
